---- MODULE Spec2Model ----
(***************************************************************************)
(* Authentication subsystem: OTP lifecycle (signup, resend-otp,            *)
(* forgot-password, verify-otp, reset-password), the login_attempts rate   *)
(* limiter and the credential sign-in (authorize).                         *)
(*                                                                         *)
(* Every request handler is an async function: each `await` on the store   *)
(* or on the mail provider is one step, and the steps of concurrent        *)
(* handlers interleave.  Time is counted in minutes; the clock moves       *)
(* between the time points a specification names.                          *)
(***************************************************************************)
EXTENDS Integers, Sequences, FiniteSets, TLC

VARIABLES
    now,          \* wall clock (new Date(), Date.now()), in minutes
    users,        \* table users: email -> row or NoUser (email is UNIQUE)
    tokens,       \* table verification_tokens: sequence of rows, id = index
    pc,           \* per handler: the await it is suspended at
    req,          \* per handler: the request body
    loc,          \* per handler: local variables (token, otp)
    result,       \* per handler: the response of the finished request
    okCount,      \* history: per token id, consume requests that reported success on it
    superseded,   \* history: token ids followed by a later issue for the same pair
    lastOkReset,  \* history: <<email, otp>> when the request completed last was a
                  \* reset-password that reported success, <<email, otp, "again">> when
                  \* it was the same request presented once more, <<>> otherwise
    nreq,         \* number of requests received so far
    loginAttempts,\* table login_attempts: sequence of rows, id = index
    accounts,     \* table accounts: set of rows [id, email, provider, providerAccountId],
                  \* email being the key of the users row userId refers to
    call,         \* per handler and limiter: the limiter call in progress
    auth,         \* per handler: local variables of authorize
    streak,       \* history: per identifier, failed recordAttempt calls since the last
                  \* success, until a check has answered maxAttempts of them
    blockSet,     \* history: per identifier, the blockedUntil a check stored last (or Null)
    streakW,      \* history: the same, also restarted by a window reset
    limiter,      \* the limiter instance the limiter specifications exercise
    storeFaults   \* statements of the limiter and the activity log that may still throw

vars == <<now, users, tokens, pc, req, loc, result, okCount, superseded, lastOkReset, nreq,
          loginAttempts, accounts, call, auth, streak, blockSet, streakW, limiter,
          storeFaults>>

\* what the OTP routes never touch, and what the sign-in never touches
rlVars == <<loginAttempts, accounts, call, auth, streak, blockSet, streakW, limiter,
            storeFaults>>
otpTables == <<tokens, loc, okCount, superseded, lastOkReset, limiter>>
otpVars == <<otpTables, storeFaults>>

----------------------------------------------------------------------------
(* Bounds *)

MaxTokens == 2
MaxRequests == 5

Handlers == {"h1", "h2"}
Emails == {"a@x.com"}
Codes == {"111111", "222222"}
Ips == {"1.1.1.1"}
\* the email as typed at sign-in
RawEmails == {"a@x.com", " A@X.com "}
Identifiers == Ips \cup Emails
SignupPasswords == {"pw1"}
NewPasswords == {"pw2"}

----------------------------------------------------------------------------
(* Program constants, in minutes *)

OtpTtl == 10
IstOffset == 330

\* the instants at which the clock is observed under the OTP specifications: a
\* code issued at 0 is at its expiry at 10 and one minute past it at 11
OtpTimes == {0, 1, 10, 11}

NoUser == [exists |-> FALSE]
Null == -1

Hash(p) == <<"bcrypt", p>>

NoReq == [kind |-> "idle", email |-> "", otp |-> "", pw |-> "", ip |-> ""]
NoLoc == [tok |-> 0, otp |-> "", expiresAt |-> 0, ts |-> 0]

\* the two limiter instances
Limiters == {"ip", "email"}

NoRow == [identifier |-> "", attempts |-> 0, lastAttempt |-> Null, blockedUntil |-> Null]
NoRes == [allowed |-> TRUE, remainingAttempts |-> 0, resetTime |-> Null, blockedUntil |-> Null]
NoCall == [op |-> "none", pc |-> "idle", identifier |-> "", success |-> FALSE, now |-> 0,
           row |-> 0, rec |-> NoRow, branch |-> "", res |-> NoRes]
NoAuth == [email |-> "", ip |-> "", checked |-> FALSE, ipCheck |-> NoRes, emailCheck |-> NoRes,
           user |-> NoUser, lookedUp |-> FALSE, compared |-> FALSE, outcome |-> "",
           log |-> ""]

\* users.password of an account created by the Google sign-in
NoPassword == <<>>
\* users.name and users.image never written (null), user.name and user.image the
\* provider left out
NoValue == ""

TokenIds == 1..Len(tokens)

MatchingTokens_anyType(email, otp, type) ==
    {i \in TokenIds : /\ tokens[i].email = email
                      /\ tokens[i].token = otp
                      /\ tokens[i].used = FALSE}

MatchingTokens_ignoreUsed(email, otp, type) ==
    {i \in TokenIds : /\ tokens[i].email = email
                      /\ tokens[i].token = otp
                      /\ tokens[i].type = type}

\* WHERE email = .. AND token = .. AND type = .. AND used = false
MatchingTokens(email, otp, type) ==
    {i \in TokenIds : /\ tokens[i].email = email
                      /\ tokens[i].token = otp
                      /\ tokens[i].type = type
                      /\ tokens[i].used = FALSE}

\* WHERE email = .. AND type = .. AND used = false
UnusedTokens(email, type) ==
    {i \in TokenIds : /\ tokens[i].email = email
                      /\ tokens[i].type = type
                      /\ tokens[i].used = FALSE}

\* UPDATE verification_tokens SET used = true WHERE id IN ids
MarkUsed(ids) ==
    [i \in TokenIds |-> IF i \in ids THEN [tokens[i] EXCEPT !.used = TRUE] ELSE tokens[i]]

\* new Date() > token.expiresAt
IsExpired_atExpiry(tok, t) == t >= tok.expiresAt

IsExpired(tok, t) == t > tok.expiresAt

----------------------------------------------------------------------------
(* Handler plumbing *)

IssueKinds == {"signup", "resend", "forgot", "authForgot"}
ConsumeKinds == {"verify", "reset"}

InFlight(h) == pc[h] \notin {"idle", "done"}
\* requests that do not overlap are served one after the other by one handler
SeqHandler == "h1"

AllIdle == \A h \in Handlers : pc[h] = "idle"

\* handler instances are interchangeable: of two idle ones the first takes the request
Takes(h) == h = SeqHandler \/ pc[SeqHandler] # "idle"

\* Issuing requests that may still insert a token row.
PendingInserts == Cardinality({h \in Handlers : InFlight(h) /\ req[h].kind \in IssueKinds})

Goto(h, label) == pc' = [pc EXCEPT ![h] = label]

\* return NextResponse.json(...)
Finish(h, r) ==
    /\ pc' = [pc EXCEPT ![h] = "done"]
    /\ result' = [result EXCEPT ![h] = r]
    /\ lastOkReset' =
         IF req[h].kind = "reset" /\ r = "ok" THEN <<req[h].email, req[h].otp>>
         ELSE IF req[h].kind = "reset" /\ lastOkReset = <<req[h].email, req[h].otp>>
           THEN <<req[h].email, req[h].otp, "again">>
         ELSE <<>>

Start(h, kind, email, otp, pw) ==
    /\ pc[h] = "idle" /\ Takes(h)
    /\ kind \in IssueKinds => Len(tokens) + PendingInserts < MaxTokens
    /\ pc' = [pc EXCEPT ![h] = kind \o "_select_user"]
    /\ req' = [req EXCEPT ![h] = [kind |-> kind, email |-> email, otp |-> otp, pw |-> pw, ip |-> ""]]
    /\ nreq < MaxRequests
    /\ nreq' = nreq + 1
    /\ UNCHANGED <<now, users, tokens, loc, result, okCount, superseded, lastOkReset>> /\ UNCHANGED rlVars

\* The response has been sent; the handler instance is gone.
Retire(h) ==
    /\ pc[h] = "done"
    /\ pc' = [pc EXCEPT ![h] = "idle"]
    /\ req' = [req EXCEPT ![h] = NoReq]
    /\ loc' = [loc EXCEPT ![h] = NoLoc]
    /\ result' = [result EXCEPT ![h] = ""]
    /\ UNCHANGED <<now, users, tokens, okCount, superseded, lastOkReset, nreq>> /\ UNCHANGED rlVars

Tick ==
    /\ \E t \in OtpTimes : t > now /\ now' = t
    /\ UNCHANGED <<users, tokens, pc, req, loc, result, okCount, superseded, lastOkReset, nreq>> /\ UNCHANGED rlVars

\* generateOTP(); expiresAt = Date.now() + 10 min: run synchronously before the send
GenerateOTP(h) ==
    \E code \in Codes : loc' = [loc EXCEPT ![h] = [@ EXCEPT !.otp = code, !.expiresAt = now + OtpTtl]]

\* db.insert(verificationTokens).values({email, token: otp, type, expiresAt, used: false})
InsertToken(h, type) ==
    /\ tokens' = Append(tokens, [email |-> req[h].email, token |-> loc[h].otp, type |-> type,
                                 expiresAt |-> loc[h].expiresAt, used |-> FALSE])
    /\ okCount' = Append(okCount, 0)
    /\ superseded' = superseded \cup
           {i \in TokenIds : tokens[i].email = req[h].email /\ tokens[i].type = type}

InvalidateUnused_none(h, type) ==
    tokens' = tokens

\* UPDATE ... SET used = true WHERE email AND type AND used = false
InvalidateUnused(h, type) ==
    tokens' = MarkUsed(UnusedTokens(req[h].email, type))

----------------------------------------------------------------------------
(* POST /api/auth/signup *)

SignupSelectUser(h) ==
    /\ pc[h] = "signup_select_user"
    /\ IF users[req[h].email].exists
         THEN Finish(h, "email_in_use")
         ELSE Goto(h, "signup_hash") /\ UNCHANGED <<result, lastOkReset>>
    /\ UNCHANGED <<now, users, tokens, req, loc, okCount, superseded, nreq>> /\ UNCHANGED rlVars

SignupHash(h) ==
    /\ pc[h] = "signup_hash"
    /\ GenerateOTP(h)
    /\ Goto(h, "signup_send")
    /\ UNCHANGED <<now, users, tokens, req, result, okCount, superseded, lastOkReset, nreq>> /\ UNCHANGED rlVars

SignupSend(h) ==
    /\ pc[h] = "signup_send"
    /\ \E emailSent \in BOOLEAN :
         IF ~emailSent
           THEN Finish(h, "email_failed")
           ELSE Goto(h, "signup_insert_user") /\ UNCHANGED <<result, lastOkReset>>
    /\ UNCHANGED <<now, users, tokens, req, loc, okCount, superseded, nreq>> /\ UNCHANGED rlVars

SignupInsertUser(h) ==
    /\ pc[h] = "signup_insert_user"
    /\ IF users[req[h].email].exists
         THEN \* users_email_unique is violated: the insert throws
              Finish(h, "internal_error") /\ UNCHANGED users
         ELSE /\ users' = [users EXCEPT ![req[h].email] =
                    [exists |-> TRUE, password |-> Hash(req[h].pw),
                     isActive |-> FALSE, emailVerified |-> Null,
                     name |-> NoValue, image |-> NoValue]]
              /\ Goto(h, "signup_insert_token")
              /\ UNCHANGED <<result, lastOkReset>>
    /\ UNCHANGED <<now, tokens, req, loc, okCount, superseded, nreq>> /\ UNCHANGED rlVars

SignupInsertToken(h) ==
    /\ pc[h] = "signup_insert_token"
    /\ InsertToken(h, "email_verification")
    /\ Finish(h, "created")
    /\ UNCHANGED <<now, users, req, loc, nreq>> /\ UNCHANGED rlVars

----------------------------------------------------------------------------
(* POST /api/auth/resend-otp *)

ResendSelectUser(h) ==
    /\ pc[h] = "resend_select_user"
    /\ IF ~users[req[h].email].exists THEN Finish(h, "user_not_found")
       ELSE IF users[req[h].email].isActive THEN Finish(h, "already_verified")
       ELSE Goto(h, "resend_invalidate") /\ UNCHANGED <<result, lastOkReset>>
    /\ UNCHANGED <<now, users, tokens, req, loc, okCount, superseded, nreq>> /\ UNCHANGED rlVars

ResendInvalidate(h) ==
    /\ pc[h] = "resend_invalidate"
    /\ InvalidateUnused(h, "email_verification")
    /\ GenerateOTP(h)
    /\ Goto(h, "resend_send")
    /\ UNCHANGED <<now, users, req, result, okCount, superseded, lastOkReset, nreq>> /\ UNCHANGED rlVars

ResendSend(h) ==
    /\ pc[h] = "resend_send"
    /\ \E emailSent \in BOOLEAN :
         IF ~emailSent
           THEN Finish(h, "email_failed")
           ELSE Goto(h, "resend_insert") /\ UNCHANGED <<result, lastOkReset>>
    /\ UNCHANGED <<now, users, tokens, req, loc, okCount, superseded, nreq>> /\ UNCHANGED rlVars

ResendInsert(h) ==
    /\ pc[h] = "resend_insert"
    /\ InsertToken(h, "email_verification")
    /\ Finish(h, "sent")
    /\ UNCHANGED <<now, users, req, loc, nreq>> /\ UNCHANGED rlVars

----------------------------------------------------------------------------
(* POST /api/forgot-password *)

ForgotSelectUser(h) ==
    /\ pc[h] = "forgot_select_user"
    /\ IF ~users[req[h].email].exists
         THEN Finish(h, "generic_ok")
         ELSE Goto(h, "forgot_invalidate") /\ UNCHANGED <<result, lastOkReset>>
    /\ UNCHANGED <<now, users, tokens, req, loc, okCount, superseded, nreq>> /\ UNCHANGED rlVars

ForgotInvalidate(h) ==
    /\ pc[h] = "forgot_invalidate"
    /\ InvalidateUnused(h, "password_reset")
    /\ GenerateOTP(h)
    /\ Goto(h, "forgot_send")
    /\ UNCHANGED <<now, users, req, result, okCount, superseded, lastOkReset, nreq>> /\ UNCHANGED rlVars

ForgotSend(h) ==
    /\ pc[h] = "forgot_send"
    /\ \E emailSent \in BOOLEAN :
         IF ~emailSent
           THEN Finish(h, "email_failed")
           ELSE Goto(h, "forgot_insert") /\ UNCHANGED <<result, lastOkReset>>
    /\ UNCHANGED <<now, users, tokens, req, loc, okCount, superseded, nreq>> /\ UNCHANGED rlVars

ForgotInsert(h) ==
    /\ pc[h] = "forgot_insert"
    /\ InsertToken(h, "password_reset")
    /\ Finish(h, "generic_ok")
    /\ UNCHANGED <<now, users, req, loc, nreq>> /\ UNCHANGED rlVars

----------------------------------------------------------------------------
(* POST /api/auth/forgot-password: the token is stored before the mail is sent *)

AuthForgotSelectUser(h) ==
    /\ pc[h] = "authForgot_select_user"
    /\ IF ~users[req[h].email].exists THEN Finish(h, "generic_ok")
       ELSE IF ~users[req[h].email].isActive THEN Finish(h, "verify_email_first")
       ELSE Goto(h, "authForgot_invalidate") /\ UNCHANGED <<result, lastOkReset>>
    /\ UNCHANGED <<now, users, tokens, req, loc, okCount, superseded, nreq>> /\ UNCHANGED rlVars

AuthForgotInvalidate(h) ==
    /\ pc[h] = "authForgot_invalidate"
    /\ InvalidateUnused(h, "password_reset")
    /\ GenerateOTP(h)
    /\ Goto(h, "authForgot_insert")
    /\ UNCHANGED <<now, users, req, result, okCount, superseded, lastOkReset, nreq>> /\ UNCHANGED rlVars

AuthForgotInsert(h) ==
    /\ pc[h] = "authForgot_insert"
    /\ InsertToken(h, "password_reset")
    /\ Goto(h, "authForgot_send")
    /\ UNCHANGED <<now, users, req, loc, result, lastOkReset, nreq>> /\ UNCHANGED rlVars

AuthForgotSend(h) ==
    /\ pc[h] = "authForgot_send"
    /\ \E emailSent \in BOOLEAN :
         Finish(h, IF emailSent THEN "sent" ELSE "email_failed")
    /\ UNCHANGED <<now, users, tokens, req, loc, okCount, superseded, nreq>> /\ UNCHANGED rlVars

----------------------------------------------------------------------------
(* POST /api/auth/verify-otp *)

VerifySelectUser(h) ==
    /\ pc[h] = "verify_select_user"
    /\ IF ~users[req[h].email].exists THEN Finish(h, "user_not_found")
       ELSE IF users[req[h].email].isActive \/ users[req[h].email].emailVerified # Null
         THEN Finish(h, "already_verified")
       ELSE Goto(h, "verify_select_token") /\ UNCHANGED <<result, lastOkReset>>
    /\ UNCHANGED <<now, users, tokens, req, loc, okCount, superseded, nreq>> /\ UNCHANGED rlVars

\* the message of the 400 response the two consumers send for a rejected code
Response(r) ==
    CASE r = "invalid_or_expired" -> "Invalid or expired verification code"
      [] r = "expired" -> "Verification code has expired"
      [] OTHER -> ""

\* select ... limit(1), then the expiry test on the row it returned
SelectToken(h, type, next) ==
    LET found == MatchingTokens(req[h].email, req[h].otp, type) IN
    IF found = {}
      THEN Finish(h, "invalid_or_expired") /\ UNCHANGED loc
      ELSE \E i \in found :
             IF IsExpired(tokens[i], now)
               THEN Finish(h, "expired") /\ UNCHANGED loc
               ELSE /\ loc' = [loc EXCEPT ![h] = [@ EXCEPT !.tok = i]]
                    /\ Goto(h, next)
                    /\ UNCHANGED <<result, lastOkReset>>

\* UPDATE verification_tokens SET used = true WHERE id = token.id
MarkTokenUsed(h) ==
    tokens' = MarkUsed({loc[h].tok})

ConsumeOk(h) ==
    /\ okCount' = [okCount EXCEPT ![loc[h].tok] = @ + 1]
    /\ Finish(h, "ok")

VerifySelectToken(h) ==
    /\ pc[h] = "verify_select_token"
    /\ SelectToken(h, "email_verification", "verify_mark")
    /\ UNCHANGED <<now, users, tokens, req, okCount, superseded, nreq>> /\ UNCHANGED rlVars

VerifyMark(h) ==
    /\ pc[h] = "verify_mark"
    /\ MarkTokenUsed(h)
    /\ loc' = [loc EXCEPT ![h] = [@ EXCEPT !.ts = now + IstOffset]]
    /\ Goto(h, "verify_update_user")
    /\ UNCHANGED <<now, users, req, result, okCount, superseded, lastOkReset, nreq>> /\ UNCHANGED rlVars

VerifyUpdateUser(h) ==
    /\ pc[h] = "verify_update_user"
    /\ users' = [users EXCEPT ![req[h].email] =
                    IF @.exists THEN [@ EXCEPT !.isActive = TRUE, !.emailVerified = loc[h].ts] ELSE @]
    /\ ConsumeOk(h)
    /\ UNCHANGED <<now, tokens, req, loc, superseded, nreq>> /\ UNCHANGED rlVars

----------------------------------------------------------------------------
(* POST /api/reset-password *)

ResetSelectUser(h) ==
    /\ pc[h] = "reset_select_user"
    /\ IF ~users[req[h].email].exists
         THEN Finish(h, "invalid_request")
         ELSE Goto(h, "reset_select_token") /\ UNCHANGED <<result, lastOkReset>>
    /\ UNCHANGED <<now, users, tokens, req, loc, okCount, superseded, nreq>> /\ UNCHANGED rlVars

ResetSelectToken(h) ==
    /\ pc[h] = "reset_select_token"
    /\ SelectToken(h, "password_reset", "reset_hash")
    /\ UNCHANGED <<now, users, tokens, req, okCount, superseded, nreq>> /\ UNCHANGED rlVars

ResetHash(h) ==
    /\ pc[h] = "reset_hash"
    /\ Goto(h, "reset_update_user")
    /\ UNCHANGED <<now, users, tokens, req, loc, result, okCount, superseded, lastOkReset, nreq>> /\ UNCHANGED rlVars

\* UPDATE users SET password = ..; the statement may throw (connection lost, timeout),
\* which the catch of the route answers with 500
ResetUpdateUser(h) ==
    /\ pc[h] = "reset_update_user"
    /\ \E written \in BOOLEAN :
         IF written
           THEN /\ users' = [users EXCEPT ![req[h].email] =
                       IF @.exists THEN [@ EXCEPT !.password = Hash(req[h].pw)] ELSE @]
                /\ Goto(h, "reset_mark")
                /\ UNCHANGED <<result, lastOkReset>>
           ELSE Finish(h, "internal_error") /\ UNCHANGED users
    /\ UNCHANGED <<now, tokens, req, loc, okCount, superseded, nreq>> /\ UNCHANGED rlVars

ResetMark(h) ==
    /\ pc[h] = "reset_mark"
    /\ MarkTokenUsed(h)
    /\ Goto(h, "reset_mark_others")
    /\ UNCHANGED <<now, users, req, loc, result, okCount, superseded, lastOkReset, nreq>> /\ UNCHANGED rlVars

ResetMarkOthers(h) ==
    /\ pc[h] = "reset_mark_others"
    /\ InvalidateUnused(h, "password_reset")
    /\ ConsumeOk(h)
    /\ UNCHANGED <<now, users, req, loc, superseded, nreq>> /\ UNCHANGED rlVars

----------------------------------------------------------------------------
(* The OTP routes under concurrent and under sequential requests *)

OtpStart(h) ==
    \E email \in Emails :
        \/ \E pw \in SignupPasswords : Start(h, "signup", email, "", pw)
        \/ \E kind \in {"resend", "forgot", "authForgot"} : Start(h, kind, email, "", "")
        \/ \E otp \in Codes : Start(h, "verify", email, otp, "")
        \/ \E otp \in Codes, pw \in NewPasswords : Start(h, "reset", email, otp, pw)

OtpStartSeq(h) == AllIdle /\ OtpStart(h)

InitOtp ==
    /\ now = 0
    /\ users = [e \in Emails |-> NoUser]
    /\ tokens = <<>>
    /\ pc = [h \in Handlers |-> "idle"]
    /\ req = [h \in Handlers |-> NoReq]
    /\ loc = [h \in Handlers |-> NoLoc]
    /\ result = [h \in Handlers |-> ""]
    /\ okCount = <<>>
    /\ superseded = {}
    /\ lastOkReset = <<>>
    /\ nreq = 0
    /\ loginAttempts = <<>>
    /\ accounts = {}
    /\ call = [h \in Handlers |-> [s \in Limiters |-> NoCall]]
    /\ auth = [h \in Handlers |-> NoAuth]
    /\ streak = [i \in Identifiers |-> 0]
    /\ blockSet = [i \in Identifiers |-> Null]
    /\ streakW = [i \in Identifiers |-> 0]
    /\ limiter = "email"
    /\ storeFaults = 0

OtpSteps(h) ==
    \/ SignupSelectUser(h) \/ SignupHash(h) \/ SignupSend(h)
    \/ SignupInsertUser(h) \/ SignupInsertToken(h)
    \/ ResendSelectUser(h) \/ ResendInvalidate(h) \/ ResendSend(h) \/ ResendInsert(h)
    \/ ForgotSelectUser(h) \/ ForgotInvalidate(h) \/ ForgotSend(h) \/ ForgotInsert(h)
    \/ AuthForgotSelectUser(h) \/ AuthForgotInvalidate(h)
    \/ AuthForgotInsert(h) \/ AuthForgotSend(h)
    \/ VerifySelectUser(h) \/ VerifySelectToken(h) \/ VerifyMark(h) \/ VerifyUpdateUser(h)
    \/ ResetSelectUser(h) \/ ResetSelectToken(h) \/ ResetHash(h)
    \/ ResetUpdateUser(h) \/ ResetMark(h) \/ ResetMarkOthers(h)
    \/ Retire(h)

NextOtp == Tick \/ \E h \in Handlers : OtpStart(h) \/ OtpSteps(h)

NextOtpSeq == Tick \/ \E h \in Handlers : OtpStartSeq(h) \/ OtpSteps(h)

SpecOtp == InitOtp /\ [][NextOtp]_vars

SpecOtpSeq == InitOtp /\ [][NextOtpSeq]_vars

----------------------------------------------------------------------------
(* lib/rate-limit.ts: class RateLimiter over table login_attempts *)

\* the instants at which the clock is observed under the limiter specifications
RlTimes == {0, 20, 65}

MaxRows == 2

\* sign-in attempts received under the concurrent limiter specification
MaxCalls == 3

emailRateLimiter_asIp == [maxAttempts |-> 10, windowMs |-> 15, blockDurationMs |-> 30]

ipRateLimiter == [maxAttempts |-> 10, windowMs |-> 15, blockDurationMs |-> 60]
emailRateLimiter == [maxAttempts |-> 5, windowMs |-> 15, blockDurationMs |-> 30]

Config(s) == IF s = "ip" THEN ipRateLimiter ELSE emailRateLimiter

RowIds == 1..Len(loginAttempts)

\* SELECT ... WHERE identifier = .. (cleanup leaves NoRow where it deleted a row)
RowsOf(identifier) == {i \in RowIds : loginAttempts[i].identifier = identifier}

checkBranch_windowFirst(config, found, record, t) ==
    IF ~found THEN "none"
    ELSE IF record.lastAttempt # Null /\ record.lastAttempt < t - config.windowMs THEN "reset"
    ELSE IF record.blockedUntil # Null /\ record.blockedUntil > t THEN "blocked"
    ELSE IF record.attempts >= config.maxAttempts THEN "block"
    ELSE "within"

checkBranch_blockAbove(config, found, record, t) ==
    IF ~found THEN "none"
    ELSE IF record.blockedUntil # Null /\ record.blockedUntil > t THEN "blocked"
    ELSE IF record.lastAttempt # Null /\ record.lastAttempt < t - config.windowMs THEN "reset"
    ELSE IF record.attempts > config.maxAttempts THEN "block"
    ELSE "within"

checkBranch_offByOne(config, found, record, t) ==
    IF ~found THEN "none"
    ELSE IF record.blockedUntil # Null /\ record.blockedUntil > t THEN "blocked"
    ELSE IF record.lastAttempt # Null /\ record.lastAttempt < t - config.windowMs THEN "reset"
    ELSE IF record.attempts + 1 >= config.maxAttempts THEN "block"
    ELSE "within"

checkBranch_maxFirst(config, found, record, t) ==
    IF ~found THEN "none"
    ELSE IF record.blockedUntil # Null /\ record.blockedUntil > t THEN "blocked"
    ELSE IF record.attempts >= config.maxAttempts THEN "block"
    ELSE IF record.lastAttempt # Null /\ record.lastAttempt < t - config.windowMs THEN "reset"
    ELSE "within"

checkBranch_blockForever(config, found, record, t) ==
    IF ~found THEN "none"
    ELSE IF record.blockedUntil # Null THEN "blocked"
    ELSE IF record.lastAttempt # Null /\ record.lastAttempt < t - config.windowMs THEN "reset"
    ELSE IF record.attempts >= config.maxAttempts THEN "block"
    ELSE "within"

\* the branch checkRateLimit takes on the row its select returned, at time t
checkBranch(config, found, record, t) ==
    IF ~found THEN "none"
    ELSE IF record.blockedUntil # Null /\ record.blockedUntil > t THEN "blocked"
    ELSE IF record.lastAttempt # Null /\ record.lastAttempt < t - config.windowMs THEN "reset"
    ELSE IF record.attempts >= config.maxAttempts THEN "block"
    ELSE "within"

checkReturn_failClosed(config, branch, record, t) ==
    CASE branch = "none" ->
           [allowed |-> TRUE, remainingAttempts |-> config.maxAttempts - 1,
            resetTime |-> Null, blockedUntil |-> Null]
      [] branch = "blocked" ->
           [allowed |-> FALSE, remainingAttempts |-> 0,
            resetTime |-> Null, blockedUntil |-> record.blockedUntil]
      [] branch = "reset" ->
           [allowed |-> TRUE, remainingAttempts |-> config.maxAttempts - 1,
            resetTime |-> Null, blockedUntil |-> Null]
      [] branch = "block" ->
           [allowed |-> FALSE, remainingAttempts |-> 0,
            resetTime |-> Null, blockedUntil |-> t + config.blockDurationMs]
      [] branch = "fault" ->
           [allowed |-> FALSE, remainingAttempts |-> 0,
            resetTime |-> Null, blockedUntil |-> Null]
      [] OTHER ->
           [allowed |-> TRUE, remainingAttempts |-> config.maxAttempts - record.attempts,
            resetTime |-> record.lastAttempt + config.windowMs, blockedUntil |-> Null]

\* the value checkRateLimit returns on that branch
checkReturn(config, branch, record, t) ==
    CASE branch = "none" ->
           [allowed |-> TRUE, remainingAttempts |-> config.maxAttempts - 1,
            resetTime |-> Null, blockedUntil |-> Null]
      [] branch = "blocked" ->
           [allowed |-> FALSE, remainingAttempts |-> 0,
            resetTime |-> Null, blockedUntil |-> record.blockedUntil]
      [] branch = "reset" ->
           [allowed |-> TRUE, remainingAttempts |-> config.maxAttempts - 1,
            resetTime |-> Null, blockedUntil |-> Null]
      [] branch = "block" ->
           [allowed |-> FALSE, remainingAttempts |-> 0,
            resetTime |-> Null, blockedUntil |-> t + config.blockDurationMs]
      [] branch = "fault" ->
           [allowed |-> TRUE, remainingAttempts |-> config.maxAttempts,
            resetTime |-> Null, blockedUntil |-> Null]
      [] OTHER ->
           [allowed |-> TRUE, remainingAttempts |-> config.maxAttempts - record.attempts,
            resetTime |-> record.lastAttempt + config.windowMs, blockedUntil |-> Null]

\* store faults followed in the specifications with a store that may fail
MaxFaults == 1

\* whether a statement sent to the store throws
Throws == IF storeFaults > 0 THEN BOOLEAN ELSE {FALSE}

\* one fault has happened
Thrown == storeFaults' = storeFaults - 1

\* the first lines of checkRateLimit / recordAttempt: now = new Date(), the select is sent
NewCall(op, identifier, success) ==
    [op |-> op, pc |-> "select", identifier |-> identifier, success |-> success, now |-> now,
     row |-> 0, rec |-> NoRow, branch |-> "", res |-> NoRes]

\* the history counters stop at maxAttempts: the claims ask only whether it was reached
UpTo(n, s) == IF n > Config(s).maxAttempts THEN Config(s).maxAttempts ELSE n

\* checkRateLimit: the select returns; the branch is taken; an update may be sent
CheckSelect(h, s) ==
    LET c == call[h][s] IN
    /\ c.op = "check" /\ c.pc = "select"
    /\ \E thrown \in Throws :
         IF thrown
           THEN \* catch: fail open
                /\ call' = [call EXCEPT ![h][s] =
                       [c EXCEPT !.branch = "fault",
                                 !.res = checkReturn(Config(s), "fault", NoRow, c.now),
                                 !.pc = "done"]]
                /\ Thrown
                /\ UNCHANGED streak
           ELSE /\ UNCHANGED storeFaults
                /\ \E i \in (IF RowsOf(c.identifier) = {} THEN {0} ELSE RowsOf(c.identifier)) :
                     LET record == IF i = 0 THEN NoRow ELSE loginAttempts[i]
                         branch == checkBranch(Config(s), i # 0, record, c.now)
                     IN call' = [call EXCEPT ![h][s] =
                            [c EXCEPT !.row = i, !.rec = record, !.branch = branch,
                                      !.res = checkReturn(Config(s), branch, record, c.now),
                                      !.pc = IF branch \in {"reset", "block"} THEN "write"
                                             ELSE "done"]]
                /\ streak' = [streak EXCEPT ![c.identifier] =
                                 IF @ >= Config(s).maxAttempts THEN 0 ELSE @]
    /\ UNCHANGED <<now, users, pc, req, result, nreq, loginAttempts, accounts, auth,
                   blockSet, streakW>>
    /\ UNCHANGED otpTables

\* checkRateLimit: UPDATE login_attempts SET ... WHERE id = record.id
CheckWrite(h, s) ==
    LET c == call[h][s] IN
    /\ c.op = "check" /\ c.pc = "write"
    /\ \E thrown \in Throws :
         IF thrown
           THEN \* catch: fail open, the update was not applied
                /\ call' = [call EXCEPT ![h][s] =
                       [c EXCEPT !.branch = "fault",
                                 !.res = checkReturn(Config(s), "fault", NoRow, c.now),
                                 !.pc = "done"]]
                /\ Thrown
                /\ UNCHANGED <<loginAttempts, streakW, blockSet>>
           ELSE /\ UNCHANGED storeFaults
                /\ loginAttempts' =
                     IF loginAttempts[c.row] = NoRow THEN loginAttempts
                     ELSE IF c.branch = "reset"
                       THEN [loginAttempts EXCEPT ![c.row] =
                                [@ EXCEPT !.attempts = 0, !.lastAttempt = c.now,
                                          !.blockedUntil = Null]]
                       ELSE [loginAttempts EXCEPT ![c.row] =
                                [@ EXCEPT !.blockedUntil = c.now + Config(s).blockDurationMs]]
                /\ streakW' = IF c.branch = "reset" THEN [streakW EXCEPT ![c.identifier] = 0]
                              ELSE streakW
                /\ blockSet' = IF c.branch = "block" /\ loginAttempts[c.row] # NoRow
                                 THEN [blockSet EXCEPT ![c.identifier] =
                                          c.now + Config(s).blockDurationMs]
                                 ELSE blockSet
                /\ call' = [call EXCEPT ![h][s] = [c EXCEPT !.pc = "done"]]
    /\ UNCHANGED <<now, users, pc, req, result, nreq, accounts, auth, streak>>
    /\ UNCHANGED otpTables

\* recordAttempt: the select returns
RecordSelect(h, s) ==
    LET c == call[h][s] IN
    /\ c.op = "record" /\ c.pc = "select"
    /\ \E thrown \in Throws :
         IF thrown
           THEN \* catch: the error is logged and recordAttempt returns
                /\ call' = [call EXCEPT ![h][s] = [c EXCEPT !.branch = "fault", !.pc = "done"]]
                /\ Thrown
           ELSE /\ UNCHANGED storeFaults
                /\ \E i \in (IF RowsOf(c.identifier) = {} THEN {0} ELSE RowsOf(c.identifier)) :
                     call' = [call EXCEPT ![h][s] =
                            [c EXCEPT !.row = i,
                                      !.rec = IF i = 0 THEN NoRow ELSE loginAttempts[i],
                                      !.pc = "write"]]
    /\ UNCHANGED <<now, users, pc, req, result, nreq, loginAttempts, accounts, auth,
                   streak, blockSet, streakW>>
    /\ UNCHANGED otpTables

recordedRow_keepBlock(c) ==
    IF c.row = 0
      THEN [identifier |-> c.identifier, attempts |-> IF c.success THEN 0 ELSE 1,
            lastAttempt |-> c.now, blockedUntil |-> Null]
      ELSE [identifier |-> c.identifier,
            attempts |-> IF c.success THEN 0 ELSE c.rec.attempts + 1,
            lastAttempt |-> c.now,
            blockedUntil |-> c.rec.blockedUntil]

recordedRow_clearBlock(c) ==
    IF c.row = 0
      THEN [identifier |-> c.identifier, attempts |-> IF c.success THEN 0 ELSE 1,
            lastAttempt |-> c.now, blockedUntil |-> Null]
      ELSE [identifier |-> c.identifier,
            attempts |-> IF c.success THEN 0 ELSE c.rec.attempts + 1,
            lastAttempt |-> c.now,
            blockedUntil |-> Null]

recordedRow_noCount(c) ==
    IF c.row = 0
      THEN [identifier |-> c.identifier, attempts |-> IF c.success THEN 0 ELSE 1,
            lastAttempt |-> c.now, blockedUntil |-> Null]
      ELSE [identifier |-> c.identifier,
            attempts |-> IF c.success THEN 0 ELSE c.rec.attempts,
            lastAttempt |-> c.now,
            blockedUntil |-> IF c.success THEN Null ELSE c.rec.blockedUntil]

\* the row recordAttempt inserts (no row was found) or the values it sets
recordedRow(c) ==
    IF c.row = 0
      THEN [identifier |-> c.identifier, attempts |-> IF c.success THEN 0 ELSE 1,
            lastAttempt |-> c.now, blockedUntil |-> Null]
      ELSE [identifier |-> c.identifier,
            attempts |-> IF c.success THEN 0 ELSE c.rec.attempts + 1,
            lastAttempt |-> c.now,
            blockedUntil |-> IF c.success THEN Null ELSE c.rec.blockedUntil]

\* recordAttempt: INSERT, or UPDATE ... WHERE id = record.id
RecordWrite(h, s) ==
    LET c == call[h][s] IN
    /\ c.op = "record" /\ c.pc = "write"
    /\ \E thrown \in Throws :
         IF thrown
           THEN \* catch: the error is logged and recordAttempt returns
                /\ call' = [call EXCEPT ![h][s] = [c EXCEPT !.branch = "fault", !.pc = "done"]]
                /\ Thrown
                /\ UNCHANGED <<loginAttempts, streak, streakW>>
           ELSE /\ UNCHANGED storeFaults
                /\ loginAttempts' =
                     IF c.row = 0 THEN Append(loginAttempts, recordedRow(c))
                     ELSE IF loginAttempts[c.row] = NoRow THEN loginAttempts
                     ELSE [loginAttempts EXCEPT ![c.row] = recordedRow(c)]
                /\ streak' = [streak EXCEPT ![c.identifier] =
                                 IF c.success THEN 0 ELSE UpTo(@ + 1, s)]
                /\ streakW' = [streakW EXCEPT ![c.identifier] =
                                  IF c.success THEN 0 ELSE UpTo(@ + 1, s)]
                /\ call' = [call EXCEPT ![h][s] = [c EXCEPT !.pc = "done"]]
    /\ UNCHANGED <<now, users, pc, req, result, nreq, accounts, auth, blockSet>>
    /\ UNCHANGED otpTables

\* cleanup: DELETE FROM login_attempts WHERE attempts = 0 AND last_attempt < cutoff
Cleanup(s) ==
    LET cutoff == now - Config(s).windowMs * 2
        stale == {i \in RowIds : /\ loginAttempts[i] # NoRow
                                 /\ loginAttempts[i].attempts = 0
                                 /\ loginAttempts[i].lastAttempt < cutoff}
    IN
    /\ stale # {}
    /\ loginAttempts' = [i \in RowIds |-> IF i \in stale THEN NoRow ELSE loginAttempts[i]]
    /\ UNCHANGED <<now, users, pc, req, result, nreq, accounts, call, auth, streak, blockSet, streakW>>
    /\ UNCHANGED otpVars

TickRl ==
    /\ \E t \in RlTimes : t > now /\ now' = t
    /\ UNCHANGED <<users, pc, req, result, nreq, loginAttempts, accounts, call, auth,
                   streak, blockSet, streakW>>
    /\ UNCHANGED otpVars

----------------------------------------------------------------------------
(* One limiter as authorize drives it: checkRateLimit, and recordAttempt    *)
(* with the outcome of the sign-in only when the check allowed.            *)

IdentifiersOf(s) == IF s = "ip" THEN Ips ELSE Emails

\* handlers that may still insert a login_attempts row
PendingRows == Cardinality({h \in Handlers : pc[h] \in {"use_check", "use_record"}})

UseStart(h, s) ==
    /\ pc[h] = "idle" /\ Takes(h)
    /\ s = limiter
    /\ \E identifier \in IdentifiersOf(s) :
         /\ Len(loginAttempts) + PendingRows < MaxRows \/ RowsOf(identifier) # {}
         /\ req' = [req EXCEPT ![h] = [NoReq EXCEPT !.kind = "attempt",
                        !.email = IF s = "email" THEN identifier ELSE "",
                        !.ip = IF s = "ip" THEN identifier ELSE ""]]
         /\ call' = [call EXCEPT ![h][s] = NewCall("check", identifier, FALSE)]
    /\ pc' = [pc EXCEPT ![h] = "use_check"]
    /\ UNCHANGED <<now, users, result, loginAttempts, accounts, auth, streak, blockSet, streakW>>
    /\ UNCHANGED otpVars

\* the check has returned: reject, or verify the credentials and record the outcome
UseChecked(h, s) ==
    LET c == call[h][s] IN
    /\ pc[h] = "use_check"
    /\ c.op = "check" /\ c.pc = "done"
    /\ IF c.res.allowed
         THEN \E success \in BOOLEAN :
                /\ call' = [call EXCEPT ![h][s] = NewCall("record", c.identifier, success)]
                /\ pc' = [pc EXCEPT ![h] = "use_record"]
                /\ UNCHANGED result
         ELSE /\ pc' = [pc EXCEPT ![h] = "done"]
              /\ result' = [result EXCEPT ![h] = "rate_limited"]
              /\ UNCHANGED call
    /\ UNCHANGED <<now, users, req, nreq, loginAttempts, accounts, auth, streak, blockSet, streakW>>
    /\ UNCHANGED otpVars

UseRecorded(h, s) ==
    LET c == call[h][s] IN
    /\ pc[h] = "use_record"
    /\ c.op = "record" /\ c.pc = "done"
    /\ pc' = [pc EXCEPT ![h] = "done"]
    /\ result' = [result EXCEPT ![h] = IF c.success THEN "signed_in" ELSE "invalid_credentials"]
    /\ UNCHANGED <<now, users, req, nreq, loginAttempts, accounts, call, auth, streak, blockSet, streakW>>
    /\ UNCHANGED otpVars

\* The response has been sent; the handler instance is gone.
RetireRl(h) ==
    /\ pc[h] = "done"
    /\ pc' = [pc EXCEPT ![h] = "idle"]
    /\ req' = [req EXCEPT ![h] = NoReq]
    /\ result' = [result EXCEPT ![h] = ""]
    /\ call' = [call EXCEPT ![h] = [s \in Limiters |-> NoCall]]
    /\ auth' = [auth EXCEPT ![h] = NoAuth]
    /\ UNCHANGED <<now, users, nreq, loginAttempts, accounts, streak, blockSet, streakW>>
    /\ UNCHANGED otpVars

\* attempts that do not overlap, and a bounded number of attempts that do
UseStartSeq(h, s) == AllIdle /\ UseStart(h, s) /\ UNCHANGED nreq

UseStartAny(h, s) == nreq < MaxCalls /\ UseStart(h, s) /\ nreq' = nreq + 1

LimiterSteps(h, s) ==
    \/ CheckSelect(h, s) \/ CheckWrite(h, s)
    \/ RecordSelect(h, s) \/ RecordWrite(h, s)

InitRl ==
    /\ limiter \in Limiters
    /\ storeFaults = 0
    /\ now = 0
    /\ users = [e \in Emails |-> NoUser]
    /\ pc = [h \in Handlers |-> "idle"]
    /\ req = [h \in Handlers |-> NoReq]
    /\ result = [h \in Handlers |-> ""]
    /\ nreq = 0
    /\ loginAttempts = <<>>
    /\ accounts = {}
    /\ call = [h \in Handlers |-> [s \in Limiters |-> NoCall]]
    /\ auth = [h \in Handlers |-> NoAuth]
    /\ streak = [i \in Identifiers |-> 0]
    /\ blockSet = [i \in Identifiers |-> Null]
    /\ streakW = [i \in Identifiers |-> 0]
    /\ tokens = <<>>
    /\ loc = [h \in Handlers |-> NoLoc]
    /\ okCount = <<>>
    /\ superseded = {}
    /\ lastOkReset = <<>>

\* the table after sign-in attempts made one after the other at time 0: empty,
\* or one record holding n failures, blocked once a check has met maxAttempts
StoredRecords(s) ==
    {<<>>} \cup
    { <<[identifier |-> i, attempts |-> n, lastAttempt |-> 0, blockedUntil |-> b]>> :
        i \in IdentifiersOf(s),
        n \in {0, Config(s).maxAttempts - 1, Config(s).maxAttempts},
        b \in {Null} } \cup
    { <<[identifier |-> i, attempts |-> Config(s).maxAttempts, lastAttempt |-> 0,
         blockedUntil |-> Config(s).blockDurationMs]>> : i \in IdentifiersOf(s) }

InitRlStored ==
    /\ limiter \in Limiters
    /\ storeFaults = 0
    /\ now = 0
    /\ users = [e \in Emails |-> NoUser]
    /\ pc = [h \in Handlers |-> "idle"]
    /\ req = [h \in Handlers |-> NoReq]
    /\ result = [h \in Handlers |-> ""]
    /\ nreq = 0
    /\ loginAttempts \in StoredRecords(limiter)
    /\ accounts = {}
    /\ call = [h \in Handlers |-> [s \in Limiters |-> NoCall]]
    /\ auth = [h \in Handlers |-> NoAuth]
    /\ streakW = [i \in Identifiers |->
                    IF \E r \in RowIds : loginAttempts[r].identifier = i
                      THEN loginAttempts[1].attempts ELSE 0]
    /\ blockSet = [i \in Identifiers |->
                    IF \E r \in RowIds : loginAttempts[r].identifier = i
                      THEN loginAttempts[1].blockedUntil ELSE Null]
    /\ streak = [i \in Identifiers |-> IF blockSet[i] # Null THEN 0 ELSE streakW[i]]
    /\ tokens = <<>>
    /\ loc = [h \in Handlers |-> NoLoc]
    /\ okCount = <<>>
    /\ superseded = {}
    /\ lastOkReset = <<>>

NextRl ==
    \/ TickRl
    \/ \E s \in Limiters : Cleanup(s)
    \/ \E h \in Handlers : RetireRl(h)
    \/ \E h \in Handlers, s \in Limiters :
         UseStartAny(h, s) \/ UseChecked(h, s) \/ UseRecorded(h, s) \/ LimiterSteps(h, s)

NextRlSeq ==
    \/ TickRl
    \/ \E s \in Limiters : AllIdle /\ Cleanup(s)
    \/ \E h \in Handlers : RetireRl(h)
    \/ \E h \in Handlers, s \in Limiters :
         UseStartSeq(h, s) \/ UseChecked(h, s) \/ UseRecorded(h, s)
         \/ LimiterSteps(h, s)

SpecRl == InitRlStored /\ [][NextRl]_vars

SpecRlSeq == InitRl /\ [][NextRlSeq]_vars

\* the same attempts when the clock goes on, requests keep arriving and every
\* request that has started is served to its end
RlSeqFairness ==
    /\ WF_vars(TickRl)
    /\ WF_vars(\E h \in Handlers, s \in Limiters : UseStartSeq(h, s))
    /\ WF_vars(\E h \in Handlers, s \in Limiters :
                  UseChecked(h, s) \/ UseRecorded(h, s) \/ LimiterSteps(h, s))
    /\ WF_vars(\E h \in Handlers : RetireRl(h))

SpecRlLive == SpecRlSeq /\ RlSeqFairness

\* instants less than windowMs apart that together span more than windowMs
CloseTimes == {0, 10, 20}

TickClose ==
    /\ \E t \in CloseTimes : t > now /\ now' = t
    /\ UNCHANGED <<users, pc, req, result, nreq, loginAttempts, accounts, call, auth,
                   streak, blockSet, streakW>>
    /\ UNCHANGED otpVars

\* attempts that do not overlap, counted, after the failures the stored record holds
\* from minute 0
NextRlSpread ==
    \/ TickClose
    \/ \E h \in Handlers : RetireRl(h)
    \/ \E h \in Handlers, s \in Limiters :
         (AllIdle /\ UseStartAny(h, s)) \/ UseChecked(h, s) \/ UseRecorded(h, s)
         \/ LimiterSteps(h, s)

SpecRlSpread == InitRlStored /\ [][NextRlSpread]_vars

----------------------------------------------------------------------------
(* OTP claims *)

OtpTypes == {"email_verification", "password_reset"}

\* the purpose a consuming route asks for
TypeOf(kind) == IF kind = "verify" THEN "email_verification" ELSE "password_reset"

Consumed(h) == pc[h] = "done" /\ req[h].kind \in ConsumeKinds

\* C1: when two consume requests for the same route have both read the same
\* unused, unexpired OTP record, exactly one of them reports success.
C1_ExactlyOneConsumerSucceeds ==
    \A h1, h2 \in Handlers :
        ( /\ h1 # h2
          /\ Consumed(h1) /\ Consumed(h2)
          /\ req[h1].kind = req[h2].kind
          /\ loc[h1].tok # 0
          /\ loc[h1].tok = loc[h2].tok )
        => ((result[h1] = "ok") # (result[h2] = "ok"))

\* C2: under non-overlapping requests no OTP record is reported consumed more
\* than once, and a reset-password request that repeats the email and code of
\* the successful reset-password request completed just before it is rejected
\* with the invalid-or-expired reason.
C2_AtMostOnceThenInvalid ==
    [][ /\ \A i \in 1..Len(okCount') : okCount'[i] <= 1
        /\ \A h \in Handlers :
             ( /\ pc[h] # "done" /\ pc'[h] = "done"
               /\ req[h].kind = "reset"
               /\ lastOkReset = <<req[h].email, req[h].otp>> )
             => result'[h] = "invalid_or_expired" ]_vars

\* C2 witness: the same email and code were presented to reset-password a
\* second time right after a success, and the second request was rejected.
C2_Witness ==
    \E h \in Handlers :
        /\ pc[h] = "done" /\ req[h].kind = "reset"
        /\ lastOkReset = <<req[h].email, req[h].otp, "again">>
        /\ result[h] = "invalid_or_expired"
        /\ \E i \in TokenIds : okCount[i] = 1 /\ tokens[i].token = req[h].otp

\* C3: each (email, purpose) pair has at most one OTP record with used = false.
C3_AtMostOneLiveCode ==
    \A e \in Emails, t \in OtpTypes : Cardinality(UnusedTokens(e, t)) <= 1

\* an OTP record of the request's (email, purpose) carrying the presented digits
\* that was followed by a later issue for the pair
PresentsSuperseded(h) ==
    \E i \in superseded : /\ tokens[i].email = req[h].email
                          /\ tokens[i].type = TypeOf(req[h].kind)
                          /\ tokens[i].token = req[h].otp

\* C4 as stated: after a second issue for the same (email, purpose), a consume
\* request presenting the first code fails.
C4_FirstCodeFails ==
    \A h \in Handlers : (Consumed(h) /\ PresentsSuperseded(h)) => result[h] # "ok"

\* C4 amended: after a second issue for the same (email, purpose) the first OTP
\* record is used = true and no consume request accepts it; a request
\* presenting its digits succeeds only on a later record with the same digits.
C4_FirstRecordNeverAccepted ==
    /\ \A i \in superseded : tokens[i].used
    /\ \A h \in Handlers :
         (Consumed(h) /\ result[h] = "ok") => loc[h].tok \notin superseded

\* C4 witness: a consume request presented the digits of a superseded,
\* still unexpired first code, and was rejected.
C4_Witness ==
    \E h \in Handlers :
        /\ Consumed(h) /\ result[h] = "invalid_or_expired"
        /\ \E i \in superseded : /\ tokens[i].email = req[h].email
                                 /\ tokens[i].type = TypeOf(req[h].kind)
                                 /\ tokens[i].token = req[h].otp
                                 /\ ~IsExpired(tokens[i], now)
                                 /\ \A j \in TokenIds : j # i => tokens[j].token # req[h].otp

----------------------------------------------------------------------------
(* lib/auth.ts: authorize of the credentials provider *)

\* the passwords typed at sign-in: the one users were registered with, a wrong one, none
AuthPasswords == {"pw1", "bad", ""}

\* credentials.email.toLowerCase().trim()
Normalize(email) == IF email \in {" A@X.com ", "A@X.com"} THEN "a@x.com" ELSE email

\* bcrypt.compare(password, hash)
Compare(password, hash) == hash = Hash(password)

\* the text of the Error authorize throws for an outcome, which NextAuth hands to
\* the caller; the rate-limit texts are followed by the time blockedUntil
Message(outcome) ==
    CASE outcome = "credentials_required" -> "Email and password are required"
      [] outcome = "rate_limited_ip" -> "Too many failed attempts from your IP. Try again after"
      [] outcome = "rate_limited_email" -> "Too many failed attempts for this email. Try again after"
      [] outcome = "invalid_credentials" -> "Invalid credentials"
      [] outcome = "google_account" -> "This account is linked to Google. Please use Google to sign in, or contact support to set up a password."
      [] outcome = "setup_incomplete" -> "Account setup incomplete. Please contact support."
      [] outcome = "not_verified" -> "Please verify your email address before logging in"
      [] OTHER -> ""

RecordBoth_emailAsSuccess(h, success, outcome) ==
    /\ call' = [call EXCEPT ![h] = [s \in Limiters |->
                   NewCall("record", IF s = "ip" THEN auth[h].ip ELSE auth[h].email,
                           IF s = "ip" THEN success ELSE TRUE)]]
    /\ pc' = [pc EXCEPT ![h] = "auth_record"]

\* Promise.all of recordAttempt on both limiters with the outcome of the sign-in
RecordBoth(h, success, outcome) ==
    /\ call' = [call EXCEPT ![h] = [s \in Limiters |->
                   NewCall("record", IF s = "ip" THEN auth[h].ip ELSE auth[h].email, success)]]
    /\ pc' = [pc EXCEPT ![h] = "auth_record"]

\* credentials arrive; both checkRateLimit calls are started
AuthBegin(h, typed, passwords) ==
    /\ pc[h] = "idle"
    /\ \E raw \in typed, pw \in passwords, ip \in Ips :
         /\ req' = [req EXCEPT ![h] = [NoReq EXCEPT !.kind = "signin", !.email = raw,
                                                 !.pw = pw, !.ip = ip]]
         /\ IF pw = ""
              THEN /\ pc' = [pc EXCEPT ![h] = "done"]
                   /\ result' = [result EXCEPT ![h] = "credentials_required"]
                   /\ UNCHANGED <<call, auth>>
              ELSE /\ auth' = [auth EXCEPT ![h] = [NoAuth EXCEPT !.email = Normalize(raw),
                                                                 !.ip = ip]]
                   /\ call' = [call EXCEPT ![h] = [s \in Limiters |->
                                  NewCall("check", IF s = "ip" THEN ip ELSE Normalize(raw), FALSE)]]
                   /\ pc' = [pc EXCEPT ![h] = "auth_check"]
                   /\ UNCHANGED result
    /\ UNCHANGED <<now, users, loginAttempts, accounts, streak, blockSet, streakW>>
    /\ UNCHANGED otpVars

AuthStart(h) == AuthBegin(h, RawEmails, AuthPasswords) /\ UNCHANGED nreq

AuthChecked_emailOnly(h) ==
    /\ pc[h] = "auth_check"
    /\ \A s \in Limiters : call[h][s].op = "check" /\ call[h][s].pc = "done"
    /\ LET ipCheck == call[h]["ip"].res
           emailCheck == call[h]["email"].res
           outcome == IF ~emailCheck.allowed THEN "rate_limited_email" ELSE ""
       IN /\ auth' = [auth EXCEPT ![h] = [@ EXCEPT !.checked = TRUE, !.ipCheck = ipCheck,
                                                   !.emailCheck = emailCheck,
                                                   !.outcome = outcome]]
          /\ pc' = [pc EXCEPT ![h] = IF outcome # "" THEN "auth_log_limit"
                                      ELSE "auth_select_user"]
    /\ UNCHANGED <<now, users, req, result, nreq, loginAttempts, accounts, call,
                   streak, blockSet, streakW>>
    /\ UNCHANGED otpVars

\* both checks have returned: the IP verdict is looked at first, then the email verdict
AuthChecked_recordsDenied(h) ==
    /\ pc[h] = "auth_check"
    /\ \A s \in Limiters : call[h][s].op = "check" /\ call[h][s].pc = "done"
    /\ LET ipCheck == call[h]["ip"].res
           emailCheck == call[h]["email"].res
           outcome == IF ~ipCheck.allowed THEN "rate_limited_ip"
                      ELSE IF ~emailCheck.allowed THEN "rate_limited_email"
                      ELSE ""
       IN /\ auth' = [auth EXCEPT ![h] = [@ EXCEPT !.checked = TRUE, !.ipCheck = ipCheck,
                                                   !.emailCheck = emailCheck,
                                                   !.outcome = outcome]]
          /\ IF outcome # "" THEN RecordBoth(h, FALSE, outcome)
             ELSE pc' = [pc EXCEPT ![h] = "auth_select_user"] /\ UNCHANGED call
    /\ UNCHANGED <<now, users, req, result, nreq, loginAttempts, accounts,
                   streak, blockSet, streakW>>
    /\ UNCHANGED otpVars

AuthChecked(h) ==
    /\ pc[h] = "auth_check"
    /\ \A s \in Limiters : call[h][s].op = "check" /\ call[h][s].pc = "done"
    /\ LET ipCheck == call[h]["ip"].res
           emailCheck == call[h]["email"].res
           outcome == IF ~ipCheck.allowed THEN "rate_limited_ip"
                      ELSE IF ~emailCheck.allowed THEN "rate_limited_email"
                      ELSE ""
       IN /\ auth' = [auth EXCEPT ![h] = [@ EXCEPT !.checked = TRUE, !.ipCheck = ipCheck,
                                                   !.emailCheck = emailCheck,
                                                   !.outcome = outcome]]
          /\ pc' = [pc EXCEPT ![h] = IF outcome # "" THEN "auth_log_limit"
                                      ELSE "auth_select_user"]
    /\ UNCHANGED <<now, users, req, result, nreq, loginAttempts, accounts, call,
                   streak, blockSet, streakW>>
    /\ UNCHANGED otpVars

\* ActivityLogger.logActivity: the insert into activity_logs is applied, or it
\* throws and the catch of logActivity swallows the error
LogActivity(h) ==
    \E thrown \in Throws :
        /\ auth' = [auth EXCEPT ![h] = [@ EXCEPT !.log = IF thrown THEN "swallowed"
                                                         ELSE "inserted"]]
        /\ IF thrown THEN Thrown ELSE UNCHANGED storeFaults

\* ActivityLogger.logRateLimitExceeded has returned; the error is thrown
AuthLogRateLimit(h) ==
    /\ pc[h] = "auth_log_limit"
    /\ LogActivity(h)
    /\ pc' = [pc EXCEPT ![h] = "done"]
    /\ result' = [result EXCEPT ![h] = auth[h].outcome]
    /\ UNCHANGED <<now, users, req, nreq, loginAttempts, accounts, call,
                   streak, blockSet, streakW>>
    /\ UNCHANGED otpTables

AuthSelectUser_noActiveCheck(h) ==
    /\ pc[h] = "auth_select_user"
    /\ LET user == users[auth[h].email]
           outcome == IF ~user.exists THEN "invalid_credentials" ELSE ""
       IN /\ auth' = [auth EXCEPT ![h] = [@ EXCEPT !.user = user, !.lookedUp = TRUE,
                                                   !.outcome = outcome]]
          /\ IF outcome # "" THEN RecordBoth(h, FALSE, outcome)
             ELSE /\ pc' = [pc EXCEPT ![h] = IF user.password = NoPassword
                                               THEN "auth_select_account" ELSE "auth_compare"]
                  /\ UNCHANGED call
    /\ UNCHANGED <<now, users, req, result, nreq, loginAttempts, accounts,
                   streak, blockSet, streakW>>
    /\ UNCHANGED otpVars

\* SELECT FROM users WHERE email = ..; no user, no password, or not active ends the sign-in
AuthSelectUser(h) ==
    /\ pc[h] = "auth_select_user"
    /\ LET user == users[auth[h].email]
           outcome == IF ~user.exists THEN "invalid_credentials"
                      ELSE IF user.password = NoPassword THEN ""
                      ELSE IF ~user.isActive THEN "not_verified"
                      ELSE ""
       IN /\ auth' = [auth EXCEPT ![h] = [@ EXCEPT !.user = user, !.lookedUp = TRUE,
                                                   !.outcome = outcome]]
          /\ IF outcome # "" THEN RecordBoth(h, FALSE, outcome)
             ELSE /\ pc' = [pc EXCEPT ![h] = IF user.password = NoPassword
                                               THEN "auth_select_account" ELSE "auth_compare"]
                  /\ UNCHANGED call
    /\ UNCHANGED <<now, users, req, result, nreq, loginAttempts, accounts,
                   streak, blockSet, streakW>>
    /\ UNCHANGED otpVars

AuthSelectAccount_admits(h) ==
    /\ pc[h] = "auth_select_account"
    /\ LET googleAccount == {a \in accounts : a.email = auth[h].email /\ a.provider = "google"}
           outcome == IF googleAccount # {} THEN "google_account" ELSE "signed_in"
       IN /\ auth' = [auth EXCEPT ![h] = [@ EXCEPT !.outcome = outcome]]
          /\ RecordBoth(h, googleAccount = {}, outcome)
    /\ UNCHANGED <<now, users, req, result, nreq, loginAttempts, accounts,
                   streak, blockSet, streakW>>
    /\ UNCHANGED otpVars

\* SELECT FROM accounts WHERE userId = .. AND provider = 'google'
AuthSelectAccount(h) ==
    /\ pc[h] = "auth_select_account"
    /\ LET googleAccount == {a \in accounts : a.email = auth[h].email /\ a.provider = "google"}
           outcome == IF googleAccount # {} THEN "google_account" ELSE "setup_incomplete"
       IN /\ auth' = [auth EXCEPT ![h] = [@ EXCEPT !.outcome = outcome]]
          /\ RecordBoth(h, FALSE, outcome)
    /\ UNCHANGED <<now, users, req, result, nreq, loginAttempts, accounts,
                   streak, blockSet, streakW>>
    /\ UNCHANGED otpVars

\* bcrypt.compare has returned
AuthCompare(h) ==
    /\ pc[h] = "auth_compare"
    /\ LET passwordMatch == Compare(req[h].pw, auth[h].user.password)
           outcome == IF passwordMatch THEN "signed_in" ELSE "invalid_credentials"
       IN /\ auth' = [auth EXCEPT ![h] = [@ EXCEPT !.compared = TRUE, !.outcome = outcome]]
          /\ RecordBoth(h, passwordMatch, outcome)
    /\ UNCHANGED <<now, users, req, result, nreq, loginAttempts, accounts,
                   streak, blockSet, streakW>>
    /\ UNCHANGED otpVars

AuthRecorded_logThrows(h) ==
    /\ pc[h] = "auth_record"
    /\ \A s \in Limiters : call[h][s].op = "record" /\ call[h][s].pc = "done"
    /\ LogActivity(h)
    /\ pc' = [pc EXCEPT ![h] = "done"]
    /\ result' = [result EXCEPT ![h] = IF auth'[h].log = "swallowed" THEN "internal_error"
                                       ELSE auth[h].outcome]
    /\ UNCHANGED <<now, users, req, nreq, loginAttempts, accounts, call,
                   streak, blockSet, streakW>>
    /\ UNCHANGED otpTables

\* the Promise.all of the two recordAttempt calls and the activity log has settled:
\* the user object is returned or the error thrown
AuthRecorded(h) ==
    /\ pc[h] = "auth_record"
    /\ \A s \in Limiters : call[h][s].op = "record" /\ call[h][s].pc = "done"
    /\ LogActivity(h)
    /\ pc' = [pc EXCEPT ![h] = "done"]
    /\ result' = [result EXCEPT ![h] = auth[h].outcome]
    /\ UNCHANGED <<now, users, req, nreq, loginAttempts, accounts, call,
                   streak, blockSet, streakW>>
    /\ UNCHANGED otpTables

\* the users and accounts tables as signup, verify-otp and the Google sign-in leave
\* them for one email: no user, registered, verified, created by Google before and
\* after the account link is stored
StoredUsers ==
    { NoUser,
      [exists |-> TRUE, password |-> Hash("pw1"), isActive |-> FALSE, emailVerified |-> Null,
       name |-> NoValue, image |-> NoValue],
      [exists |-> TRUE, password |-> Hash("pw1"), isActive |-> TRUE, emailVerified |-> IstOffset,
       name |-> NoValue, image |-> NoValue],
      [exists |-> TRUE, password |-> NoPassword, isActive |-> TRUE, emailVerified |-> 0,
       name |-> "Ann", image |-> "ann.png"] }

\* login_attempts before the sign-ins that are followed: empty, or the record of
\* the IP after nine failed sign-ins from it for other emails at time 0
StoredIpRecords ==
    {<<>>} \cup
    { <<[identifier |-> ip, attempts |-> ipRateLimiter.maxAttempts - 1, lastAttempt |-> 0,
         blockedUntil |-> Null]>> : ip \in Ips }

InitAuthTables ==
    /\ limiter = "both"
    /\ now = 0
    /\ \E u \in StoredUsers : users = [e \in Emails |-> IF e = "a@x.com" THEN u ELSE NoUser]
    /\ accounts \in {{}, {[id |-> 1, email |-> "a@x.com", provider |-> "google",
                             providerAccountId |-> "g1"]}}
    /\ accounts # {} => users["a@x.com"].exists /\ users["a@x.com"].password = NoPassword
    /\ pc = [h \in Handlers |-> "idle"]
    /\ req = [h \in Handlers |-> NoReq]
    /\ result = [h \in Handlers |-> ""]
    /\ nreq = 0
    /\ loginAttempts \in StoredIpRecords
    /\ call = [h \in Handlers |-> [s \in Limiters |-> NoCall]]
    /\ auth = [h \in Handlers |-> NoAuth]
    /\ streak = [i \in Identifiers |->
                   IF \E r \in RowIds : loginAttempts[r].identifier = i
                     THEN loginAttempts[1].attempts ELSE 0]
    /\ blockSet = [i \in Identifiers |-> Null]
    /\ streakW = streak
    /\ tokens = <<>>
    /\ loc = [h \in Handlers |-> NoLoc]
    /\ okCount = <<>>
    /\ superseded = {}
    /\ lastOkReset = <<>>

InitAuth == InitAuthTables /\ storeFaults = 0

\* the same tables with a store that may fail
InitAuthFault == InitAuthTables /\ storeFaults = MaxFaults

AuthSteps(h) ==
    \/ AuthChecked(h) \/ AuthLogRateLimit(h) \/ AuthSelectUser(h)
    \/ AuthSelectAccount(h) \/ AuthCompare(h) \/ AuthRecorded(h)
    \/ RetireRl(h)

\* sign-ins that do not overlap
NextAuthSeq ==
    \/ TickRl
    \/ \E s \in Limiters : AllIdle /\ Cleanup(s)
    \/ AuthStart(SeqHandler) \/ AuthSteps(SeqHandler)
    \/ \E s \in Limiters : LimiterSteps(SeqHandler, s)

SpecAuthSeq == InitAuth /\ [][NextAuthSeq]_vars

\* the same sign-ins with a store that may fail
SpecAuthFault == InitAuthFault /\ [][NextAuthSeq]_vars

----------------------------------------------------------------------------
(* callbacks.signIn for account.provider = "google" *)

\* sign-ins through Google that are followed
MaxSignIns == 3

\* the keys the users table may hold: users.email is compared as stored
StoredEmails == {"a@x.com", "A@X.com", "b@x.com"}
\* user.email, account.providerAccountId, user.name and user.image, and
\* account.access_token as Google sends them
GoogleEmails == {"A@X.com", "b@x.com"}
GoogleSubs == {"g1"}
GoogleProfiles == { [name |-> NoValue, image |-> NoValue],
                    [name |-> "Ann", image |-> "ann.png"],
                    [name |-> "Bea", image |-> NoValue] }
GoogleTokens == {"t1", "t2"}

\* what a Google sign-in leaves alone
googleFrame == <<now, tokens, loc, okCount, superseded, lastOkReset, loginAttempts, call,
                 streak, blockSet, streakW, limiter>>

GoogleStart(h) ==
    /\ pc[h] = "idle"
    /\ nreq < MaxSignIns
    /\ nreq' = nreq + 1
    /\ \E raw \in GoogleEmails, sub \in GoogleSubs, profile \in GoogleProfiles,
          token \in GoogleTokens :
         /\ req' = [req EXCEPT ![h] =
                      [kind |-> "google", email |-> raw, otp |-> "", pw |-> "", ip |-> "",
                       name |-> profile.name, image |-> profile.image,
                       providerAccountId |-> sub, access_token |-> token]]
         /\ auth' = [auth EXCEPT ![h] = [NoAuth EXCEPT !.email = Normalize(raw)]]
    /\ pc' = [pc EXCEPT ![h] = "google_select_user"]
    /\ UNCHANGED <<users, accounts, result, storeFaults>> /\ UNCHANGED googleFrame

\* SELECT FROM users WHERE email = .. LIMIT 1
GoogleSelectUser(h) ==
    /\ pc[h] = "google_select_user"
    /\ auth' = [auth EXCEPT ![h] = [@ EXCEPT !.user = users[auth[h].email],
                                                !.lookedUp = TRUE]]
    /\ pc' = [pc EXCEPT ![h] = IF users[auth[h].email].exists THEN "google_update_user"
                               ELSE "google_insert_user"]
    /\ UNCHANGED <<users, accounts, req, result, nreq, storeFaults>> /\ UNCHANGED googleFrame

\* name: user.name || existingUser[0].name, and the same for image
Merged(provided, stored) == IF provided # NoValue THEN provided ELSE stored

GoogleUpdateUser_keepsInactive(h) ==
    /\ pc[h] = "google_update_user"
    /\ users' = [users EXCEPT ![auth[h].email] =
                    [@ EXCEPT !.name = Merged(req[h].name, auth[h].user.name),
                              !.image = Merged(req[h].image, auth[h].user.image),
                              !.emailVerified = now]]
    /\ pc' = [pc EXCEPT ![h] = "google_select_account"]
    /\ UNCHANGED <<accounts, req, result, nreq, auth, storeFaults>> /\ UNCHANGED googleFrame

\* UPDATE users SET name, image, emailVerified, isActive WHERE id = userId
GoogleUpdateUser(h) ==
    /\ pc[h] = "google_update_user"
    /\ users' = [users EXCEPT ![auth[h].email] =
                    [@ EXCEPT !.name = Merged(req[h].name, auth[h].user.name),
                              !.image = Merged(req[h].image, auth[h].user.image),
                              !.emailVerified = now,
                              !.isActive = TRUE]]
    /\ pc' = [pc EXCEPT ![h] = "google_select_account"]
    /\ UNCHANGED <<accounts, req, result, nreq, auth, storeFaults>> /\ UNCHANGED googleFrame

\* INSERT INTO users .. RETURNING id; users_email_unique makes the insert throw when
\* another sign-in has stored the email since the select, and signIn returns false
GoogleInsertUser(h) ==
    /\ pc[h] = "google_insert_user"
    /\ IF users[auth[h].email].exists
         THEN /\ pc' = [pc EXCEPT ![h] = "done"]
              /\ result' = [result EXCEPT ![h] = "false"]
              /\ UNCHANGED users
         ELSE /\ users' = [users EXCEPT ![auth[h].email] =
                    [exists |-> TRUE, password |-> NoPassword, isActive |-> TRUE,
                     emailVerified |-> now, name |-> req[h].name, image |-> req[h].image]]
              /\ pc' = [pc EXCEPT ![h] = "google_select_account"]
              /\ UNCHANGED result
    /\ UNCHANGED <<accounts, req, nreq, auth, storeFaults>> /\ UNCHANGED googleFrame

\* the accounts rows of WHERE userId = .. AND provider = 'google' AND
\* providerAccountId = ..
ExistingAccount(h) ==
    {a \in accounts : a.email = auth[h].email /\ a.provider = "google"
                      /\ a.providerAccountId = req[h].providerAccountId}

\* SELECT FROM accounts WHERE .. LIMIT 1
GoogleSelectAccount(h) ==
    /\ pc[h] = "google_select_account"
    /\ pc' = [pc EXCEPT ![h] = IF ExistingAccount(h) = {} THEN "google_insert_account"
                               ELSE "google_update_account"]
    /\ UNCHANGED <<users, accounts, req, result, nreq, auth, storeFaults>>
    /\ UNCHANGED googleFrame

\* INSERT INTO accounts: the table has no primary key and no unique constraint
GoogleInsertAccount(h) ==
    /\ pc[h] = "google_insert_account"
    /\ accounts' = accounts \cup
          {[id |-> Cardinality(accounts) + 1, email |-> auth[h].email, provider |-> "google",
            providerAccountId |-> req[h].providerAccountId,
            access_token |-> req[h].access_token]}
    /\ pc' = [pc EXCEPT ![h] = "google_log"]
    /\ UNCHANGED <<users, req, result, nreq, auth, storeFaults>> /\ UNCHANGED googleFrame

\* UPDATE accounts SET access_token, .. WHERE userId, provider, providerAccountId
GoogleUpdateAccount(h) ==
    /\ pc[h] = "google_update_account"
    /\ accounts' = {IF a \in ExistingAccount(h)
                      THEN [a EXCEPT !.access_token = req[h].access_token] ELSE a :
                    a \in accounts}
    /\ pc' = [pc EXCEPT ![h] = "google_log"]
    /\ UNCHANGED <<users, req, result, nreq, auth, storeFaults>> /\ UNCHANGED googleFrame

\* ActivityLogger.logSignup or logLogin has returned; signIn returns true
GoogleLog(h) ==
    /\ pc[h] = "google_log"
    /\ LogActivity(h)
    /\ pc' = [pc EXCEPT ![h] = "done"]
    /\ result' = [result EXCEPT ![h] = "true"]
    /\ UNCHANGED <<users, accounts, req, nreq>> /\ UNCHANGED googleFrame

\* the callback has returned; the handler instance is gone
GoogleRetire(h) ==
    /\ pc[h] = "done"
    /\ pc' = [pc EXCEPT ![h] = "idle"]
    /\ req' = [req EXCEPT ![h] = NoReq]
    /\ result' = [result EXCEPT ![h] = ""]
    /\ auth' = [auth EXCEPT ![h] = NoAuth]
    /\ UNCHANGED <<users, accounts, nreq, storeFaults>> /\ UNCHANGED googleFrame

GoogleSteps(h) ==
    \/ GoogleSelectUser(h) \/ GoogleUpdateUser(h) \/ GoogleInsertUser(h)
    \/ GoogleSelectAccount(h) \/ GoogleInsertAccount(h) \/ GoogleUpdateAccount(h)
    \/ GoogleLog(h) \/ GoogleRetire(h)

\* the users table before the Google sign-ins: empty, or holding the user signup and
\* verify-otp left for the email
InitGoogle ==
    /\ now = 0
    /\ \E u \in {NoUser,
                 [exists |-> TRUE, password |-> Hash("pw1"), isActive |-> TRUE,
                  emailVerified |-> IstOffset, name |-> NoValue, image |-> NoValue]} :
         users = [e \in StoredEmails |-> IF e = "a@x.com" THEN u ELSE NoUser]
    /\ accounts = {}
    /\ tokens = <<>>
    /\ pc = [h \in Handlers |-> "idle"]
    /\ req = [h \in Handlers |-> NoReq]
    /\ loc = [h \in Handlers |-> NoLoc]
    /\ result = [h \in Handlers |-> ""]
    /\ okCount = <<>>
    /\ superseded = {}
    /\ lastOkReset = <<>>
    /\ nreq = 0
    /\ loginAttempts = <<>>
    /\ call = [h \in Handlers |-> [s \in Limiters |-> NoCall]]
    /\ auth = [h \in Handlers |-> NoAuth]
    /\ streak = [i \in Identifiers |-> 0]
    /\ blockSet = [i \in Identifiers |-> Null]
    /\ streakW = [i \in Identifiers |-> 0]
    /\ limiter = "both"
    /\ storeFaults = 0

NextGoogle == \E h \in Handlers : GoogleStart(h) \/ GoogleSteps(h)

\* Google sign-ins that may overlap
SpecGoogle == InitGoogle /\ [][NextGoogle]_vars

----------------------------------------------------------------------------
(* An email from signup to sign-in: signup, verify-otp and the credential   *)
(* sign-in on one users table, one request at a time. No user without a     *)
(* password exists here, so the accounts lookup of authorize is never run.  *)

\* the email as typed at signup, at verify-otp and at sign-in: z.string().email()
\* accepts upper case and refuses surrounding blanks
SignupEmails == {"a@x.com", "A@X.com"}

JourneyStart(h) ==
    /\ AllIdle
    /\ \/ \E email \in SignupEmails, pw \in SignupPasswords : Start(h, "signup", email, "", pw)
       \/ \E email \in SignupEmails, otp \in Codes : Start(h, "verify", email, otp, "")
       \/ AuthBegin(h, SignupEmails, AuthPasswords) /\ UNCHANGED nreq

JourneySteps(h) ==
    \/ SignupSelectUser(h) \/ SignupHash(h) \/ SignupSend(h)
    \/ SignupInsertUser(h) \/ SignupInsertToken(h)
    \/ VerifySelectUser(h) \/ VerifySelectToken(h) \/ VerifyMark(h) \/ VerifyUpdateUser(h)
    \/ req[h].kind \in {"signup", "verify"} /\ Retire(h)
    \/ AuthChecked(h) \/ AuthLogRateLimit(h) \/ AuthSelectUser(h)
    \/ AuthCompare(h) \/ AuthRecorded(h)
    \/ req[h].kind = "signin" /\ RetireRl(h)
    \/ \E s \in Limiters : LimiterSteps(h, s)

\* no user yet
InitJourney ==
    /\ now = 0
    /\ users = [e \in StoredEmails |-> NoUser]
    /\ accounts = {}
    /\ tokens = <<>>
    /\ pc = [h \in Handlers |-> "idle"]
    /\ req = [h \in Handlers |-> NoReq]
    /\ loc = [h \in Handlers |-> NoLoc]
    /\ result = [h \in Handlers |-> ""]
    /\ okCount = <<>>
    /\ superseded = {}
    /\ lastOkReset = <<>>
    /\ nreq = 0
    /\ loginAttempts = <<>>
    /\ call = [h \in Handlers |-> [s \in Limiters |-> NoCall]]
    /\ auth = [h \in Handlers |-> NoAuth]
    /\ streak = [i \in Identifiers |-> 0]
    /\ blockSet = [i \in Identifiers |-> Null]
    /\ streakW = [i \in Identifiers |-> 0]
    /\ limiter = "both"
    /\ storeFaults = 0

NextJourney == JourneyStart(SeqHandler) \/ JourneySteps(SeqHandler)

SpecJourney == InitJourney /\ [][NextJourney]_vars

----------------------------------------------------------------------------
(* Sign-ins with a wrong password for one email that may overlap, all within *)
(* one window: the clock stands still.                                      *)

\* sign-ins followed
MaxRace == 7

WrongPasswords == {"bad"}

\* sign-ins with a wrong password that failed one after the other before the
\* sign-ins followed
PriorFailures == emailRateLimiter.maxAttempts - 2

AuthStartRace(h) ==
    /\ Takes(h)
    /\ nreq < MaxRace
    /\ nreq' = nreq + 1
    /\ AuthBegin(h, Emails, WrongPasswords)

RaceSteps(h) ==
    \/ AuthChecked(h) \/ AuthLogRateLimit(h) \/ AuthSelectUser(h)
    \/ AuthCompare(h) \/ AuthRecorded(h)
    \/ RetireRl(h)
    \/ \E s \in Limiters : LimiterSteps(h, s)

\* a verified user with a password, and the records the prior failures left
InitRace ==
    /\ now = 0
    /\ users = [e \in Emails |->
                  [exists |-> TRUE, password |-> Hash("pw1"), isActive |-> TRUE,
                   emailVerified |-> IstOffset, name |-> NoValue, image |-> NoValue]]
    /\ accounts = {}
    /\ tokens = <<>>
    /\ pc = [h \in Handlers |-> "idle"]
    /\ req = [h \in Handlers |-> NoReq]
    /\ loc = [h \in Handlers |-> NoLoc]
    /\ result = [h \in Handlers |-> ""]
    /\ okCount = <<>>
    /\ superseded = {}
    /\ lastOkReset = <<>>
    /\ nreq = PriorFailures
    /\ loginAttempts = << [identifier |-> "1.1.1.1", attempts |-> PriorFailures,
                           lastAttempt |-> 0, blockedUntil |-> Null],
                          [identifier |-> "a@x.com", attempts |-> PriorFailures,
                           lastAttempt |-> 0, blockedUntil |-> Null] >>
    /\ call = [h \in Handlers |-> [s \in Limiters |-> NoCall]]
    /\ auth = [h \in Handlers |-> NoAuth]
    /\ streak = [i \in Identifiers |-> PriorFailures]
    /\ blockSet = [i \in Identifiers |-> Null]
    /\ streakW = [i \in Identifiers |-> PriorFailures]
    /\ limiter = "both"
    /\ storeFaults = 0

NextRace == \E h \in Handlers : AuthStartRace(h) \/ RaceSteps(h)

SpecRace == InitRace /\ [][NextRace]_vars

----------------------------------------------------------------------------
(* A password account that signs in through Google and then with its        *)
(* password, one request at a time                                          *)

MergeStart(h) ==
    /\ AllIdle
    /\ \/ GoogleStart(h)
       \/ AuthBegin(h, SignupEmails, WrongPasswords \cup {"pw1"}) /\ UNCHANGED nreq

MergeSteps(h) ==
    \/ GoogleSelectUser(h) \/ GoogleUpdateUser(h) \/ GoogleInsertUser(h)
    \/ GoogleSelectAccount(h) \/ GoogleInsertAccount(h) \/ GoogleUpdateAccount(h)
    \/ GoogleLog(h)
    \/ req[h].kind = "google" /\ GoogleRetire(h)
    \/ AuthChecked(h) \/ AuthLogRateLimit(h) \/ AuthSelectUser(h)
    \/ AuthCompare(h) \/ AuthRecorded(h)
    \/ req[h].kind = "signin" /\ RetireRl(h)
    \/ \E s \in Limiters : LimiterSteps(h, s)

\* the user signup left for a@x.com: a password, not active, never verified
InitMerge ==
    /\ now = 0
    /\ users = [e \in StoredEmails |->
                  IF e = "a@x.com"
                    THEN [exists |-> TRUE, password |-> Hash("pw1"), isActive |-> FALSE,
                          emailVerified |-> Null, name |-> NoValue, image |-> NoValue]
                    ELSE NoUser]
    /\ accounts = {}
    /\ tokens = <<>>
    /\ pc = [h \in Handlers |-> "idle"]
    /\ req = [h \in Handlers |-> NoReq]
    /\ loc = [h \in Handlers |-> NoLoc]
    /\ result = [h \in Handlers |-> ""]
    /\ okCount = <<>>
    /\ superseded = {}
    /\ lastOkReset = <<>>
    /\ nreq = 0
    /\ loginAttempts = <<>>
    /\ call = [h \in Handlers |-> [s \in Limiters |-> NoCall]]
    /\ auth = [h \in Handlers |-> NoAuth]
    /\ streak = [i \in Identifiers |-> 0]
    /\ blockSet = [i \in Identifiers |-> Null]
    /\ streakW = [i \in Identifiers |-> 0]
    /\ limiter = "both"
    /\ storeFaults = 0

NextMerge == MergeStart(SeqHandler) \/ MergeSteps(SeqHandler)

SpecMerge == InitMerge /\ [][NextMerge]_vars

----------------------------------------------------------------------------
(* authorize: sign-ins from one IP within one window, one after the other *)

MaxFailed == 12

\* the passwords typed: the one the user was registered with, and a wrong one
WindowPasswords == {"pw1", "bad"}

\* a sign-in starts when the one before has ended; nreq counts the sign-ins that
\* were submitted with a wrong password
AuthStartWindow(h) ==
    /\ AllIdle
    /\ AuthBegin(h, Emails, WindowPasswords)
    /\ req'[h].pw = "bad" => nreq < MaxFailed
    /\ nreq' = IF req'[h].pw = "bad" THEN nreq + 1 ELSE nreq

\* a verified user with a password, and the record of the IP after
\* maxAttempts - 1 failed sign-ins from it for other emails at time 0
InitWindow ==
    /\ now = 0
    /\ users = [e \in Emails |->
                  [exists |-> TRUE, password |-> Hash("pw1"), isActive |-> TRUE,
                   emailVerified |-> IstOffset, name |-> NoValue, image |-> NoValue]]
    /\ accounts = {}
    /\ tokens = <<>>
    /\ pc = [h \in Handlers |-> "idle"]
    /\ req = [h \in Handlers |-> NoReq]
    /\ loc = [h \in Handlers |-> NoLoc]
    /\ result = [h \in Handlers |-> ""]
    /\ okCount = <<>>
    /\ superseded = {}
    /\ lastOkReset = <<>>
    /\ nreq = ipRateLimiter.maxAttempts - 1
    /\ loginAttempts = << [identifier |-> "1.1.1.1",
                           attempts |-> ipRateLimiter.maxAttempts - 1,
                           lastAttempt |-> 0, blockedUntil |-> Null] >>
    /\ call = [h \in Handlers |-> [s \in Limiters |-> NoCall]]
    /\ auth = [h \in Handlers |-> NoAuth]
    /\ streak = [i \in Identifiers |->
                   IF i \in Ips THEN ipRateLimiter.maxAttempts - 1 ELSE 0]
    /\ blockSet = [i \in Identifiers |-> Null]
    /\ streakW = streak
    /\ limiter = "both"
    /\ storeFaults = 0

NextWindow == AuthStartWindow(SeqHandler) \/ RaceSteps(SeqHandler)

SpecWindow == InitWindow /\ [][NextWindow]_vars

----------------------------------------------------------------------------
(* Rate limiter claims *)

\* the step in which the select of a checkRateLimit call returns
CheckAnswers(h, s) ==
    call[h][s].op = "check" /\ call[h][s].pc = "select" /\ call'[h][s].pc # "select"

\* a checkRateLimit call that has taken its branch
Checked(h, s) == call[h][s].op = "check" /\ call[h][s].pc \in {"write", "done"}

\* C5 as stated: once maxAttempts consecutive recordAttempt(identifier, false)
\* calls have occurred with no recordAttempt(identifier, true) in between, the
\* next checkRateLimit(identifier) returns allowed = false with a blockedUntil
\* later than the time of the check.
C5_DeniedAfterMaxFailures ==
    [][ \A h \in Handlers, s \in Limiters :
          (CheckAnswers(h, s) /\ streak[call[h][s].identifier] >= Config(s).maxAttempts)
          => ( /\ ~call'[h][s].res.allowed
               /\ call'[h][s].res.blockedUntil > call[h][s].now ) ]_vars

\* C5 amended: for calls that do not overlap, once maxAttempts consecutive
\* recordAttempt(identifier, false) calls have occurred with neither a
\* recordAttempt(identifier, true) nor a window reset by checkRateLimit in
\* between, a checkRateLimit that runs no later than windowMs after the last of
\* them returns allowed = false with a blockedUntil later than the time of the
\* check.
C5_DeniedAfterMaxFailuresInWindow ==
    [][ \A h \in Handlers, s \in Limiters :
          ( /\ CheckAnswers(h, s)
            /\ streakW[call[h][s].identifier] >= Config(s).maxAttempts
            /\ call'[h][s].row # 0
            /\ call'[h][s].rec.lastAttempt >= call[h][s].now - Config(s).windowMs )
          => ( /\ ~call'[h][s].res.allowed
               /\ call'[h][s].res.blockedUntil > call[h][s].now ) ]_vars

\* C5 witness: maxAttempts failures in a row, then a check inside the window
\* that set the block.
C5_Witness ==
    \E h \in Handlers, s \in Limiters :
        /\ Checked(h, s)
        /\ streakW[call[h][s].identifier] >= Config(s).maxAttempts
        /\ call[h][s].branch = "block"
        /\ ~call[h][s].res.allowed
        /\ call[h][s].res.blockedUntil > call[h][s].now

\* C6: a checkRateLimit that finds a record with attempts below maxAttempts and
\* blockedUntil absent or not in the future returns allowed = true.
C6_AllowedBelowMax ==
    \A h \in Handlers, s \in Limiters :
        ( /\ Checked(h, s)
          /\ call[h][s].row # 0
          /\ call[h][s].rec.attempts < Config(s).maxAttempts
          /\ (call[h][s].rec.blockedUntil = Null \/ call[h][s].rec.blockedUntil <= call[h][s].now) )
        => call[h][s].res.allowed

\* C6 witness: a record one attempt short of maxAttempts, inside the window, was allowed.
C6_Witness ==
    \E h \in Handlers, s \in Limiters :
        /\ Checked(h, s)
        /\ call[h][s].row # 0
        /\ call[h][s].rec.attempts = Config(s).maxAttempts - 1
        /\ call[h][s].branch = "within"
        /\ call[h][s].res.allowed

\* the step in which recordAttempt(identifier, true) writes
SuccessWrites(h, s) ==
    /\ call[h][s].op = "record" /\ call[h][s].pc = "write" /\ call'[h][s].pc = "done"
    /\ call[h][s].success

\* C7: recordAttempt(identifier, true) leaves the record it addresses with
\* attempts = 0 and blockedUntil = null whatever it held before, and creates a
\* record with attempts = 0 when its select found none.
C7_SuccessResets ==
    [][ \A h \in Handlers, s \in Limiters :
          SuccessWrites(h, s) =>
            LET c == call[h][s] IN
            IF c.row = 0
              THEN /\ Len(loginAttempts') = Len(loginAttempts) + 1
                   /\ loginAttempts'[Len(loginAttempts')].identifier = c.identifier
                   /\ loginAttempts'[Len(loginAttempts')].attempts = 0
                   /\ loginAttempts'[Len(loginAttempts')].blockedUntil = Null
              ELSE loginAttempts[c.row] # NoRow =>
                   /\ loginAttempts'[c.row].identifier = c.identifier
                   /\ loginAttempts'[c.row].attempts = 0
                   /\ loginAttempts'[c.row].blockedUntil = Null ]_vars

\* C7 witness: a success was recorded on a record that was blocked, with
\* maxAttempts failures on it, when the call read it.
C7_Witness ==
    \E h \in Handlers, s \in Limiters :
        LET c == call[h][s] IN
        /\ c.op = "record" /\ c.pc = "done" /\ c.success
        /\ c.row # 0
        /\ c.rec.attempts >= Config(s).maxAttempts
        /\ c.rec.blockedUntil # Null /\ c.rec.blockedUntil > c.now
        /\ loginAttempts[c.row].attempts = 0
        /\ loginAttempts[c.row].blockedUntil = Null

\* C8 as stated: once blockedUntil has been set for an identifier, every
\* checkRateLimit for it whose select is answered before blockedUntil returns
\* allowed = false.
C8_DeniedUntilBlockExpires ==
    [][ \A h \in Handlers, s \in Limiters :
          ( /\ CheckAnswers(h, s)
            /\ blockSet[call[h][s].identifier] # Null
            /\ now < blockSet[call[h][s].identifier] )
          => ~call'[h][s].res.allowed ]_vars

\* C8 amended: every checkRateLimit whose select returns a record with
\* blockedUntil later than now returns allowed = false with that blockedUntil
\* and writes nothing, whatever the attempts count and the age of lastAttempt.
C8_BlockedRecordDenied ==
    \A h \in Handlers, s \in Limiters :
        ( /\ Checked(h, s)
          /\ call[h][s].row # 0
          /\ call[h][s].rec.blockedUntil # Null
          /\ call[h][s].rec.blockedUntil > call[h][s].now )
        => ( /\ ~call[h][s].res.allowed
             /\ call[h][s].res.remainingAttempts = 0
             /\ call[h][s].res.blockedUntil = call[h][s].rec.blockedUntil
             /\ call[h][s].pc = "done" )

\* C8 witness: a check found the block in force on a record whose window had
\* already run out, and denied.
C8_Witness ==
    \E h \in Handlers, s \in Limiters :
        /\ Checked(h, s)
        /\ call[h][s].row # 0
        /\ call[h][s].rec.blockedUntil # Null
        /\ call[h][s].rec.blockedUntil > call[h][s].now
        /\ call[h][s].rec.lastAttempt < call[h][s].now - Config(s).windowMs
        /\ ~call[h][s].res.allowed

----------------------------------------------------------------------------
(* Sign-in claims *)

\* authorize has just taken its decision on the two verdicts
Decided(h) == pc[h] \in {"auth_log_limit", "auth_select_user"}

\* C9: after five failed credential sign-ins for one email, made one after the
\* other and the only failures counted for their source IP, a sixth sign-in for
\* that email inside the window is rejected on the email limiter's verdict while
\* the IP limiter returned allowed = true.
C9_SixthRejectedByEmailLimiter ==
    \A h \in Handlers :
        ( /\ Decided(h)
          /\ streakW[auth[h].email] = 5
          /\ streakW[auth[h].ip] = 5
          /\ call[h]["email"].row # 0
          /\ call[h]["email"].rec.lastAttempt >= call[h]["email"].now - emailRateLimiter.windowMs )
        => ( /\ pc[h] = "auth_log_limit"
             /\ auth[h].outcome = "rate_limited_email"
             /\ ~auth[h].emailCheck.allowed
             /\ auth[h].ipCheck.allowed )

\* C9 witness: the sixth sign-in was answered "rate limited for this email" with
\* the IP limiter still allowing.
C9_Witness ==
    \E h \in Handlers :
        /\ pc[h] = "done" /\ result[h] = "rate_limited_email"
        /\ streakW[auth[h].email] = 5 /\ streakW[auth[h].ip] = 5
        /\ ~auth[h].emailCheck.allowed
        /\ auth[h].emailCheck.blockedUntil > now
        /\ auth[h].ipCheck.allowed
        /\ auth[h].ipCheck.remainingAttempts = 5

\* C10: a sign-in for which either limiter returned allowed = false is rejected
\* as rate limited; the users table is not read, the password is not compared
\* and no attempt is recorded for it.
C10_DeniedBeforeLookup ==
    \A h \in Handlers :
        (auth[h].checked /\ (~auth[h].ipCheck.allowed \/ ~auth[h].emailCheck.allowed))
        => ( /\ ~auth[h].lookedUp /\ ~auth[h].compared
             /\ pc[h] \in {"auth_log_limit", "done"}
             /\ \A s \in Limiters : call[h][s].op = "check"
             /\ pc[h] = "done" => result[h] \in {"rate_limited_ip", "rate_limited_email"} )

\* C10 witness: the IP limiter denied, the email limiter allowed, and the sign-in
\* was rejected for the IP.
C10_Witness ==
    \E h \in Handlers :
        /\ pc[h] = "done" /\ result[h] = "rate_limited_ip"
        /\ ~auth[h].ipCheck.allowed
        /\ auth[h].emailCheck.allowed
        /\ ~auth[h].lookedUp /\ ~auth[h].compared

\* a finished credential sign-in
SignedIn(h) == pc[h] = "done" /\ req[h].kind = "signin"

\* C11: a credential sign-in never returns a user whose isActive flag is
\* false, whatever password is presented, the stored one included.
C11_InactiveNeverSignedIn ==
    \A h \in Handlers :
        (SignedIn(h) /\ result[h] = "signed_in")
        => ( /\ auth[h].user.exists /\ auth[h].user.isActive
             /\ users[Normalize(req[h].email)].isActive )

\* C11 witness: the stored password was presented for a user that is not
\* active, and the sign-in was refused.
C11_Witness ==
    \E h \in Handlers :
        /\ SignedIn(h)
        /\ auth[h].user.exists /\ ~auth[h].user.isActive
        /\ Compare(req[h].pw, auth[h].user.password)
        /\ result[h] = "not_verified"

\* the sign-in names a user row without a password hash and without a Google link
NoPasswordNoLink(h) ==
    LET email == Normalize(req[h].email) IN
    /\ users[email].exists
    /\ users[email].password = NoPassword
    /\ {a \in accounts : a.email = email /\ a.provider = "google"} = {}

\* recordAttempt(.., false) has completed on both limiters for this sign-in
RecordedFailure(h) ==
    \A s \in Limiters :
        call[h][s].op = "record" /\ call[h][s].pc = "done" /\ ~call[h][s].success

\* C12 as stated: a user row with no password hash and no Google link never
\* signs in with credentials, whatever password is presented, the empty string
\* included, and every such attempt is recorded as a failure.
C12_NoPasswordRefusedAndRecorded ==
    \A h \in Handlers :
        (SignedIn(h) /\ NoPasswordNoLink(h))
        => (result[h] # "signed_in" /\ RecordedFailure(h))

\* C12 amended: such a user never signs in, whatever password is presented; the
\* attempt is recorded as a failure on both limiters when a non-empty password
\* is presented and both limiters allowed; an empty password is refused as
\* missing credentials before the limiters and nothing is recorded for it.
C12_NoPasswordRefused ==
    \A h \in Handlers :
        (SignedIn(h) /\ NoPasswordNoLink(h))
        => ( /\ result[h] # "signed_in"
             /\ ~auth[h].compared
             /\ (req[h].pw = "")
                  => ( /\ result[h] = "credentials_required"
                       /\ \A s \in Limiters : call[h][s] = NoCall )
             /\ (req[h].pw # "" /\ auth[h].ipCheck.allowed /\ auth[h].emailCheck.allowed)
                  => (result[h] = "setup_incomplete" /\ RecordedFailure(h)) )

\* C12 witness: a non-empty password was presented for such a user, both
\* limiters allowed, and the sign-in was refused and recorded as a failure.
C12_Witness ==
    \E h \in Handlers :
        /\ SignedIn(h) /\ NoPasswordNoLink(h)
        /\ req[h].pw = "pw1"
        /\ result[h] = "setup_incomplete"
        /\ RecordedFailure(h)
        /\ streakW[auth[h].email] > 0

\* the failure classes of the credential check, and the two rate-limit denials
CredentialFailures == {"invalid_credentials", "google_account", "setup_incomplete", "not_verified"}
RateLimitDenials == {"rate_limited_ip", "rate_limited_email"}

\* C13: every sign-in that fails the credential check (user not found, no
\* password with a Google link, no password without one, not active, wrong
\* password) gets the one message an unknown email gets.
C13_OneFailureMessage ==
    \A h \in Handlers :
        (SignedIn(h) /\ result[h] \in CredentialFailures)
        => Message(result[h]) = Message("invalid_credentials")

\* C14: a sign-in rejected by rate limiting gets, apart from the retry time,
\* the message a denial by the IP limiter gets, whichever limiter denied.
C14_OneThrottleMessage ==
    \A h \in Handlers :
        (SignedIn(h) /\ result[h] \in RateLimitDenials)
        => Message(result[h]) = Message("rate_limited_ip")

----------------------------------------------------------------------------
(* OTP consumer claims *)

\* a finished verify-otp or reset-password request
Answered(h) == pc[h] = "done" /\ req[h].kind \in ConsumeKinds

\* the results with which a presented code is rejected
OtpRejections == {"invalid_or_expired", "expired"}

\* C15: verify-otp and reset-password answer a wrong code, a code never
\* issued, a code already used and an expired code with one and the same
\* error response, the one a wrong code gets.
C15_OneOtpErrorResponse ==
    \A h \in Handlers :
        (Answered(h) /\ result[h] \in OtpRejections)
        => Response(result[h]) = Response("invalid_or_expired")

\* the purpose an issuing route stores with its code
IssuedType(kind) ==
    IF kind \in {"signup", "resend"} THEN "email_verification" ELSE "password_reset"

\* the verification_tokens rows that hold the code request h generated
IssuedBy(h) ==
    {i \in TokenIds : /\ tokens[i].email = req[h].email
                      /\ tokens[i].type = IssuedType(req[h].kind)
                      /\ tokens[i].token = loc[h].otp
                      /\ tokens[i].expiresAt = loc[h].expiresAt
                      /\ ~tokens[i].used}

\* C16: when the mail of an OTP-issuing request (signup, resend-otp, either
\* forgot-password route) cannot be delivered, the request reports the failure
\* and no record of the code it generated exists afterwards.
C16_NoRecordAfterFailedDelivery ==
    \A h \in Handlers :
        (pc[h] = "done" /\ req[h].kind \in IssueKinds /\ result[h] = "email_failed")
        => IssuedBy(h) = {}

\* C17: when reset-password has accepted a code and the write of the new
\* password fails with a storage fault, the record of the code is used = true
\* afterwards, so that a retry with the same code is rejected.
C17_BurnedWhenPasswordWriteFails ==
    \A h \in Handlers :
        (Answered(h) /\ req[h].kind = "reset" /\ result[h] = "internal_error")
        => (loc[h].tok \in TokenIds /\ tokens[loc[h].tok].used)

\* request h has applied the write that depends on its code: verify-otp has
\* activated the user, reset-password has stored the new password
DependentWriteApplied(h) ==
    \/ req[h].kind = "verify" /\ pc[h] = "done" /\ result[h] = "ok"
    \/ req[h].kind = "reset" /\ ( \/ pc[h] \in {"reset_mark", "reset_mark_others"}
                                  \/ pc[h] = "done" /\ result[h] = "ok" )

\* C18: in both consumers the record of the code is marked used before, or
\* atomically with, the dependent write: in no state has a request applied its
\* dependent write while the record it accepted is still used = false.
C18_MarkedBeforeDependentWrite ==
    \A h \in Handlers :
        DependentWriteApplied(h) => tokens[loc[h].tok].used

\* the email_verification records holding the presented code on which a
\* verify-otp request has succeeded
VerifiedWith(h) ==
    {i \in TokenIds : /\ tokens[i].email = req[h].email
                      /\ tokens[i].token = req[h].otp
                      /\ tokens[i].type = "email_verification"
                      /\ okCount[i] > 0}

\* C19: after signup and a verify-otp with the correct code within 10 minutes
\* the user is active, and a further verify-otp with the same email and code
\* is rejected with the invalid-or-expired reason.
C19_SecondVerifyInvalidOrExpired ==
    \A h \in Handlers :
        (Answered(h) /\ req[h].kind = "verify" /\ VerifiedWith(h) # {})
        => ( /\ users[req[h].email].exists /\ users[req[h].email].isActive
             /\ result[h] \in {"ok", "invalid_or_expired"} )

\* the unused records with the email, code and purpose request h asks for, and
\* those of them that the clock has not passed
Matching(h) ==
    {i \in TokenIds : /\ tokens[i].email = req[h].email
                      /\ tokens[i].token = req[h].otp
                      /\ tokens[i].type = TypeOf(req[h].kind)
                      /\ ~tokens[i].used}
Live(h) == {i \in Matching(h) : now <= tokens[i].expiresAt}

\* request h takes the decision on the presented code in this step
DecidesOnCode(h) ==
    /\ pc[h] \in {"verify_select_token", "reset_select_token"}
    /\ pc'[h] # pc[h]

\* C20: a consume request accepts a record if and only if the record's purpose
\* is the one of the operation, it is used = false and the current time is not
\* later than its expiry (issue time + 10 minutes); a matching unused code
\* presented later than that is rejected with the expired reason and stays
\* used = false.
C20_AcceptedIffLive ==
    [][ \A h \in Handlers :
          DecidesOnCode(h)
          => ( /\ (pc'[h] \in {"verify_mark", "reset_hash"}) <=> (Live(h) # {})
               /\ (Live(h) # {}) => (loc'[h].tok \in Live(h))
               /\ (Matching(h) # {} /\ Live(h) = {})
                    => (pc'[h] = "done" /\ result'[h] = "expired" /\ tokens' = tokens)
               /\ (Matching(h) = {})
                    => (pc'[h] = "done" /\ result'[h] = "invalid_or_expired") )
      ]_vars

\* C20 witness: a code issued at 0 is presented at 11, one minute past its
\* expiry; the request is rejected as expired and the record is unused.
C20_Witness ==
    \E h \in Handlers :
        /\ Answered(h) /\ result[h] = "expired"
        /\ \E i \in Matching(h) : /\ tokens[i].expiresAt = OtpTtl
                                  /\ now = tokens[i].expiresAt + 1

----------------------------------------------------------------------------
(* recordAttempt, cleanup and the login_attempts table *)

\* recordAttempt(identifier, false) of handler h on limiter s writes in this step
RecordsFailure(h, s) ==
    /\ call[h][s].op = "record" /\ call[h][s].pc = "write" /\ ~call[h][s].success
    /\ call'[h][s].pc = "done"

\* C30: recordAttempt(identifier, false) on the record it found, unchanged since,
\* sets attempts to the prior value plus one and lastAttempt to the call's now
\* and leaves blockedUntil as it is; when it found no record it inserts one with
\* attempts = 1 and no block.
C30_FailureIncrements ==
    [][ \A h \in Handlers, s \in Limiters :
          RecordsFailure(h, s)
          => LET c == call[h][s] IN
             IF c.row = 0
               THEN loginAttempts' = Append(loginAttempts,
                        [identifier |-> c.identifier, attempts |-> 1,
                         lastAttempt |-> c.now, blockedUntil |-> Null])
               ELSE (loginAttempts[c.row] = c.rec)
                    => loginAttempts' = [loginAttempts EXCEPT ![c.row] =
                           [@ EXCEPT !.attempts = @ + 1, !.lastAttempt = c.now]]
      ]_vars

\* C30 witness: a failure has been recorded on a record that carried a block,
\* and the record holds one attempt more and the same block.
C30_Witness ==
    \E h \in Handlers, s \in Limiters :
        LET c == call[h][s] IN
        /\ c.op = "record" /\ c.pc = "done" /\ ~c.success
        /\ c.row # 0 /\ c.rec.blockedUntil # Null
        /\ loginAttempts[c.row] # NoRow
        /\ loginAttempts[c.row].attempts = c.rec.attempts + 1
        /\ loginAttempts[c.row].blockedUntil = c.rec.blockedUntil
        /\ loginAttempts[c.row].lastAttempt = c.now

\* C23: in every reachable state there is at most one login_attempts record
\* per identifier, also when two recordAttempt calls for an identifier without
\* a record run concurrently.
C23_OneRecordPerIdentifier ==
    \A identifier \in Identifiers : Cardinality(RowsOf(identifier)) <= 1

\* C24: cleanup may interleave with checkRateLimit and recordAttempt on the
\* same identifier without losing anything: when recordAttempt(identifier,
\* false) has written, the identifier has a record that counts the failure.
C24_FailureNotLostToCleanup ==
    [][ \A h \in Handlers, s \in Limiters :
          RecordsFailure(h, s)
          => \E i \in 1..Len(loginAttempts') :
                /\ loginAttempts'[i].identifier = call[h][s].identifier
                /\ loginAttempts'[i].attempts >= 1
      ]_vars

\* the unused, unexpired records with the email and digits of request h that
\* were issued for the other purpose
LiveOfOtherPurpose(h) ==
    {i \in TokenIds : /\ tokens[i].email = req[h].email
                      /\ tokens[i].token = req[h].otp
                      /\ tokens[i].type # TypeOf(req[h].kind)
                      /\ ~tokens[i].used
                      /\ now <= tokens[i].expiresAt}

----------------------------------------------------------------------------
(* Store faults *)

\* the checkRateLimit call of sign-in h on limiter s ended in its catch
CheckFaulted(h, s) == call[h][s].op = "check" /\ call[h][s].branch = "fault"

\* C21: a checkRateLimit call during which the store faults returns allowed =
\* true with remainingAttempts = maxAttempts and no blockedUntil, whatever the
\* stored record of the identifier holds, and the sign-in is not rejected on
\* that limiter's account.
C21_CheckFailsOpen ==
    \A h \in Handlers, s \in Limiters :
        CheckFaulted(h, s)
        => ( /\ call[h][s].pc = "done"
             /\ call[h][s].res = [allowed |-> TRUE,
                                  remainingAttempts |-> Config(s).maxAttempts,
                                  resetTime |-> Null, blockedUntil |-> Null]
             /\ auth[h].checked
                  => ( /\ auth[h].outcome # "rate_limited_" \o s
                       /\ (\A o \in Limiters : call[h][o].res.allowed)
                            => pc[h] \in {"auth_select_user", "auth_select_account",
                                         "auth_compare"} ) )

\* C21 witness: the email's record holds a block that has not expired, the
\* check on the email limiter faulted, and the sign-in has gone on to the
\* lookup of the user.
C21_Witness ==
    \E h \in Handlers :
        /\ CheckFaulted(h, "email")
        /\ pc[h] = "auth_select_user"
        /\ \E i \in RowsOf(auth[h].email) : /\ loginAttempts[i].blockedUntil # Null
                                            /\ loginAttempts[i].blockedUntil > now

\* the result authorize reaches on the verdicts, the user row and the password
\* it has read, the activity log left aside
Verdict(h) ==
    LET a == auth[h] IN
    IF ~a.ipCheck.allowed THEN "rate_limited_ip"
    ELSE IF ~a.emailCheck.allowed THEN "rate_limited_email"
    ELSE IF ~a.user.exists THEN "invalid_credentials"
    ELSE IF a.user.password = NoPassword
      THEN IF {x \in accounts : x.email = a.email /\ x.provider = "google"} # {}
             THEN "google_account" ELSE "setup_incomplete"
    ELSE IF ~a.user.isActive THEN "not_verified"
    ELSE IF Compare(req[h].pw, a.user.password) THEN "signed_in"
    ELSE "invalid_credentials"

\* C25: a storage fault while the activity record is inserted never changes
\* the outcome of the sign-in that logs it: logActivity returns, and the
\* sign-in ends with the result it ends with when the insert succeeds.
C25_LogFaultKeepsOutcome ==
    \A h \in Handlers :
        (SignedIn(h) /\ auth[h].log \in {"inserted", "swallowed"})
        => result[h] = Verdict(h)

\* C25 witness: the insert of the activity record failed and the user signed in.
C25_Witness ==
    \E h \in Handlers :
        /\ SignedIn(h) /\ auth[h].log = "swallowed"
        /\ result[h] = "signed_in"

----------------------------------------------------------------------------
(* Google sign-in claims *)

\* C22: in every reachable state, after any sequence or interleaving of Google
\* sign-ins, the accounts table holds at most one row per (provider,
\* providerAccountId), also when the Google account arrives with another email
\* than before.
C22_OneAccountPerProviderAccount ==
    \A a \in accounts, b \in accounts :
        a.provider = b.provider /\ a.providerAccountId = b.providerAccountId => a = b

\* the step of a Google sign-in that updates the user found for the email
UpdatesExistingUser(h) ==
    pc[h] = "google_update_user" /\ pc'[h] = "google_select_account"

\* C27: when a Google sign-in finds a user for the email it keeps that record (and
\* with it the id), sets isActive, and leaves a stored name and a stored image as
\* they are: the provider's values are written only into fields that were empty.
C27_KeepsStoredProfile ==
    [][\A h \in Handlers :
         UpdatesExistingUser(h) =>
           LET stored == users[auth[h].email]
               written == users'[auth[h].email]
           IN /\ written.exists /\ written.password = stored.password
              /\ written.isActive
              /\ stored.name # NoValue => written.name = stored.name
              /\ stored.image # NoValue => written.image = stored.image]_vars

\* C28: every users record stores its email in normalized form (lowercased,
\* trimmed), so that the email typed at signup, upper case letters included, finds
\* the record again at the credential sign-in.
C28_StoredEmailNormalized ==
    \A e \in DOMAIN users : users[e].exists => e = Normalize(e)

----------------------------------------------------------------------------
(* Overlapping sign-ins *)

\* no check of either limiter has denied so far
NoDenialYet == \A i \in Identifiers : blockSet[i] = Null

\* sign-ins of this window whose checks have all answered: before the first denial
\* each of them was admitted to the password verification
Admitted == nreq - Cardinality({h \in Handlers : pc[h] = "auth_check"})

\* C29: with two sign-in handlers submitting wrong passwords for one email at once,
\* the password verifications admitted for the email within one window before the
\* email limiter first denies number at most maxAttempts + 1.
C29_OverAdmissionAtBoundaryOnly ==
    NoDenialYet => Admitted <= emailRateLimiter.maxAttempts + 1

----------------------------------------------------------------------------
(* Limiter claims, continued *)

\* a record without an active block whose last attempt lies before the window
ExpiredWindow(record, t, s) ==
    /\ ~(record.blockedUntil # Null /\ record.blockedUntil > t)
    /\ record.lastAttempt # Null /\ record.lastAttempt < t - Config(s).windowMs

\* what checkRateLimit answers after a window reset
ResetAnswer(res, s) ==
    res.allowed /\ res.remainingAttempts = Config(s).maxAttempts - 1

\* C31: checkRateLimit on a record with no active block whose lastAttempt is earlier
\* than now - windowMs writes attempts = 0 and blockedUntil = null and returns
\* allowed with remainingAttempts = maxAttempts - 1, whatever the stored count was.
C31_ExpiredWindowResets ==
    [][\A h \in Handlers, s \in Limiters :
         LET c == call[h][s]
             d == call'[h][s]
         IN /\ ( /\ c.op = "check" /\ c.pc = "select" /\ d.pc # "select"
                 /\ d.row # 0 /\ ExpiredWindow(d.rec, c.now, s) )
               => d.pc = "write" /\ ResetAnswer(d.res, s)
            /\ ( /\ c.op = "check" /\ c.pc = "write" /\ d.pc = "done"
                 /\ ExpiredWindow(c.rec, c.now, s) )
               => /\ loginAttempts'[c.row].attempts = 0
                  /\ loginAttempts'[c.row].blockedUntil = Null
                  /\ ResetAnswer(d.res, s)]_vars

\* a check has reset a record that held maxAttempts failures or more
C31_Witness ==
    \E h \in Handlers, s \in Limiters :
        LET c == call[h][s] IN
        /\ c.op = "check" /\ c.pc = "done" /\ c.row # 0
        /\ ExpiredWindow(c.rec, c.now, s)
        /\ c.rec.attempts >= Config(s).maxAttempts
        /\ loginAttempts[c.row].attempts = 0
        /\ ResetAnswer(c.res, s)

----------------------------------------------------------------------------
(* Sign-in claims, continued *)

\* a sign-in that has ended and that both admission checks had let through
PassedBothChecks(h) ==
    /\ SignedIn(h)
    /\ auth[h].checked /\ auth[h].ipCheck.allowed /\ auth[h].emailCheck.allowed

\* the password matched a user that is active
MatchedActiveUser(h) ==
    LET user == auth[h].user IN
    /\ user.exists /\ user.password # NoPassword /\ user.isActive
    /\ Compare(req[h].pw, user.password)

\* C32: for every credential sign-in that passes both admission checks,
\* recordAttempt is called on the IP and on the email, with success = true exactly
\* when the password matched an active user and success = false for every other
\* outcome (not found, no password set, not active, wrong password).
C32_OutcomeRecordedOnBoth ==
    \A h \in Handlers :
        PassedBothChecks(h) =>
          \A s \in Limiters :
              /\ call[h][s].op = "record"
              /\ call[h][s].identifier = (IF s = "ip" THEN auth[h].ip ELSE auth[h].email)
              /\ call[h][s].success = MatchedActiveUser(h)

\* the stored password of a user that is not active was presented, and the failure
\* was recorded on both identifiers
C32_Witness ==
    \E h \in Handlers :
        /\ PassedBothChecks(h)
        /\ auth[h].user.exists /\ ~auth[h].user.isActive
        /\ auth[h].user.password # NoPassword
        /\ Compare(req[h].pw, auth[h].user.password)
        /\ RecordedFailure(h)

----------------------------------------------------------------------------
(* OTP claims, continued *)

\* the step in which a verify-otp request writes the user and reports success
VerifySucceeds(h) ==
    pc[h] = "verify_update_user" /\ pc'[h] = "done" /\ result'[h] = "ok"

\* C33: after a successful verify-otp request the emailVerified of the user is the
\* time at which the code was consumed: an instant between the issue of the code
\* and the moment the request writes the user.
C33_VerifiedAtConsumption ==
    [][\A h \in Handlers :
         VerifySucceeds(h) =>
           LET issuedAt == tokens[loc[h].tok].expiresAt - OtpTtl
               stored == users'[req[h].email].emailVerified
           IN issuedAt <= stored /\ stored <= now]_vars

----------------------------------------------------------------------------
(* Sign-in and limiter claims: rejected sign-ins and blocks *)

\* a sign-in whose admission checks are running, or that rate limiting has rejected
CheckingOrRejected(h) ==
    /\ req[h].kind = "signin"
    /\ pc[h] = "auth_check" \/ auth[h].outcome \in RateLimitDenials

\* C34: a credential sign-in that is rejected by rate limiting never increments the
\* attempts of the IP record or of the email record and never moves a blockedUntil
\* that is still in the future later: attempts while blocked do not extend the block.
C34_RejectedLeavesCountsAndBlock ==
    [][\A h \in Handlers :
         CheckingOrRejected(h) =>
           /\ Len(loginAttempts') = Len(loginAttempts)
           /\ \A r \in RowIds :
                 /\ loginAttempts'[r].attempts <= loginAttempts[r].attempts
                 /\ loginAttempts[r].blockedUntil > now
                      => loginAttempts'[r].blockedUntil <= loginAttempts[r].blockedUntil]_vars

\* a sign-in for a blocked email has been rejected and the record is as it was read
C34_Witness ==
    \E h \in Handlers :
        /\ SignedIn(h) /\ result[h] = "rate_limited_email"
        /\ call[h]["email"].branch = "blocked"
        /\ call[h]["email"].rec.blockedUntil > now
        /\ loginAttempts[call[h]["email"].row] = call[h]["email"].rec

\* the last instant the clock of the limiter specifications shows
LastInstant == CHOOSE t \in RlTimes : \A u \in RlTimes : u <= t

\* identifier i has a record whose block is active and ends while the clock runs
BlockedFor(i) ==
    \E r \in RowsOf(i) :
        /\ loginAttempts[r].blockedUntil > now
        /\ loginAttempts[r].blockedUntil <= LastInstant

\* a check of identifier i made after its block has ended was allowed and has reset
\* the count
AdmittedAfterBlock(i) ==
    \E h \in Handlers, s \in Limiters :
        LET c == call[h][s] IN
        /\ c.op = "check" /\ c.pc = "done" /\ c.identifier = i
        /\ c.rec.blockedUntil # Null /\ c.rec.blockedUntil <= c.now
        /\ c.res.allowed
        /\ loginAttempts[c.row].attempts = 0

\* C35: a blocked identifier is eventually admitted again: with no further
\* recordAttempt for it, once time has passed blockedUntil the next checkRateLimit
\* returns allowed and resets attempts to 0 (blockDurationMs >= windowMs in both
\* configurations).
C35_BlockedEventuallyAdmitted ==
    \A i \in Identifiers : BlockedFor(i) ~> AdmittedAfterBlock(i)

C35_Witness ==
    \E i \in Identifiers : AdmittedAfterBlock(i)

\* the configuration of the limiter that keeps the records of an identifier
ConfigOf(identifier) == IF identifier \in Ips THEN ipRateLimiter ELSE emailRateLimiter

\* C36 as stated: in every reachable state, under any interleaving of
\* checkRateLimit and recordAttempt, a record whose blockedUntil is in the future
\* has attempts >= maxAttempts of its limiter; a record with attempts = 0 is never
\* blocked.
C36_BlockedImpliesMaxAttempts ==
    \A r \in RowIds :
        (loginAttempts[r] # NoRow /\ loginAttempts[r].blockedUntil > now)
        => loginAttempts[r].attempts >= ConfigOf(loginAttempts[r].identifier).maxAttempts

----------------------------------------------------------------------------
(* OTP claims: failed delivery *)

\* the step in which resend-otp or forgot-password answers that the email could
\* not be sent
DeliveryFails(h) ==
    /\ req[h].kind \in {"resend", "forgot"}
    /\ pc[h] = req[h].kind \o "_send"
    /\ pc'[h] = "done" /\ result'[h] = "email_failed"

\* the codes of the pair of request h that no request has consumed, no later issue
\* has replaced and the clock has not passed
StillOwed(h) ==
    {i \in TokenIds : /\ tokens[i].email = req[h].email
                      /\ tokens[i].type = IssuedType(req[h].kind)
                      /\ okCount[i] = 0 /\ i \notin superseded
                      /\ ~IsExpired(tokens[i], now)}

\* C37: when the email delivery fails during resend-otp or forgot-password the
\* request leaves the OTP store as it was: a code issued before for the (email,
\* purpose) that is unused and unexpired is still unused when the request ends, and
\* a consume request accepts it afterwards.
C37_FailedDeliveryKeepsCodes ==
    [][\A h \in Handlers :
         DeliveryFails(h) => \A i \in StillOwed(h) : ~tokens'[i].used]_vars

\* the step in which a checkRateLimit call writes a block
SetsBlock(h, s) ==
    /\ call[h][s].op = "check" /\ call[h][s].pc = "write" /\ call[h][s].branch = "block"
    /\ call'[h][s].pc = "done"
    /\ loginAttempts'[call[h][s].row].blockedUntil > call[h][s].now

\* the failures recorded for the identifier later than instant t, as far as the
\* state tells: the stored record holds its failures from minute 0 and every later
\* failure is the outcome of one of the attempts counted since, so after an instant
\* t >= 0 there are at most nreq of them; with t before minute 0 every failure the
\* record counts lies after t
FailuresRecordedAfter(t, record) ==
    IF t < 0 THEN record.attempts ELSE nreq

\* C38: checkRateLimit sets a block only if at least maxAttempts failed attempts
\* were recorded for the identifier within the windowMs before the check; failures
\* spread over a period longer than windowMs never cause a block.
C38_BlockOnlyOnFailuresInWindow ==
    [][\A h \in Handlers, s \in Limiters :
         SetsBlock(h, s) =>
           FailuresRecordedAfter(call[h][s].now - Config(s).windowMs, call[h][s].rec)
             >= Config(s).maxAttempts]_vars

\* C38 as the code has it: checkRateLimit sets a block only on a record that it
\* read with attempts >= maxAttempts, no active block and a lastAttempt not earlier
\* than now - windowMs; the window is measured from the last attempt alone.
C38_BlockOnlyOnCountAndRecentAttempt ==
    [][\A h \in Handlers, s \in Limiters :
         SetsBlock(h, s) =>
           LET c == call[h][s] IN
           /\ c.rec.attempts >= Config(s).maxAttempts
           /\ ~(c.rec.blockedUntil # Null /\ c.rec.blockedUntil > c.now)
           /\ c.rec.lastAttempt >= c.now - Config(s).windowMs]_vars

\* a block has been set at minute 20 on failures of which all but one were recorded
\* at minute 0
C38_Witness ==
    \E h \in Handlers, s \in Limiters :
        LET c == call[h][s] IN
        /\ c.op = "check" /\ c.pc = "done" /\ c.branch = "block"
        /\ c.now - Config(s).windowMs > 0
        /\ nreq < Config(s).maxAttempts
        /\ loginAttempts[c.row].blockedUntil = c.now + Config(s).blockDurationMs

----------------------------------------------------------------------------
(* Sign-ins from one IP *)

\* the step in which the select of the IP limiter's check returns
IpCheckAnswers(h) ==
    /\ call[h]["ip"].op = "check" /\ call[h]["ip"].pc = "select"
    /\ call'[h]["ip"].pc # "select"

\* C39: from one IP, one sign-in after the other, no more than maxAttempts (10)
\* failed credential sign-ins are admitted within one window before the IP limiter
\* denies, whatever successful sign-ins from that IP occur in between.
C39_AtMostMaxFailuresAdmitted ==
    AllIdle /\ NoDenialYet => nreq <= ipRateLimiter.maxAttempts

\* C39 as the code has it: recordAttempt(ip, true) of a successful sign-in sets the
\* count of the IP to 0, so the bound holds for the failed sign-ins since the last
\* successful one: once maxAttempts failures have been recorded for the IP with no
\* success in between, the next check of the IP limiter denies.
C39_ConsecutiveFailuresDenied ==
    [][\A h \in Handlers, ip \in Ips :
         /\ IpCheckAnswers(h) /\ call[h]["ip"].identifier = ip
         /\ streak[ip] >= ipRateLimiter.maxAttempts
         => ~call'[h]["ip"].res.allowed]_vars

\* a sign-in with a wrong password has been denied by the IP limiter after the
\* failure before it was recorded as the tenth in a row
C39_Witness ==
    \E h \in Handlers :
        /\ pc[h] = "done" /\ result[h] = "rate_limited_ip"
        /\ req[h].pw = "bad"
        /\ nreq = ipRateLimiter.maxAttempts + 1
        /\ \E r \in RowIds : /\ loginAttempts[r].identifier = req[h].ip
                              /\ loginAttempts[r].attempts = ipRateLimiter.maxAttempts

----------------------------------------------------------------------------
(* Google sign-in of a password account *)

\* the emails whose user has a password and a linked Google account
MergedEmails ==
    {e \in StoredEmails : /\ users[e].exists /\ users[e].password # NoPassword
                          /\ \E a \in accounts : a.email = e /\ a.provider = "google"}

\* the sign-in of h was not turned away by a limiter
NotThrottled(h) == result[h] \notin {"rate_limited_ip", "rate_limited_email"}

\* C40: a Google sign-in for an email that already has a password account never
\* modifies the stored password hash, and after the merge a credential sign-in
\* with the password the account had succeeds (when no limiter turns it away),
\* even if the account had never completed the email verification.
C40_MergeKeepsPasswordUsable ==
    /\ [][\A h \in Handlers, e \in StoredEmails :
            req[h].kind = "google" /\ users[e].exists => users'[e].password = users[e].password]_vars
    /\ [](\A h \in Handlers :
            /\ pc[h] = "done" /\ req[h].kind = "signin" /\ req[h].pw = "pw1"
            /\ auth[h].email \in MergedEmails /\ NotThrottled(h)
            => result[h] = "signed_in")

\* the account that was never verified has signed in through Google and then with
\* its password
C40_Witness ==
    \E h \in Handlers :
        /\ pc[h] = "done" /\ req[h].kind = "signin" /\ result[h] = "signed_in"
        /\ auth[h].email \in MergedEmails
        /\ users[auth[h].email].password = Hash("pw1")
        /\ users[auth[h].email].emailVerified = 0

============================================================================
